---- MODULE Spec2Model ----
(***************************************************************************)
(* A model of the incrementally rehashed hash table of src/src/dict.c.     *)
(*                                                                         *)
(* The dictionary (struct dict) is the record d: two hash tables ht[0] and *)
(* ht[1] (field ht, a pair; C index t is position t+1), rehashidx and      *)
(* iterators.  A table (struct dictht) is the record                       *)
(*   [table, size, sizemask, used]                                         *)
(* where table is the sequence of the bucket chains (bucket i at position  *)
(* i+1) and the NULL table is the empty sequence.  A chain is the sequence *)
(* of its entries, head first; an entry (struct dictEntry) is the record   *)
(* [key, val], its next pointer being its successor in the sequence.       *)
(* A pointer to an entry is the record [t, b, p]: table, bucket, position  *)
(* in the chain.                                                           *)
(***************************************************************************)
EXTENDS Integers, Sequences, FiniteSets, TLC

VARIABLES
    d,                \* the dictionary, struct dict
    dict_can_resize,  \* the process-wide resize flag
    amap,             \* the finite map the callers have built (history)
    op,               \* the last call and what it returned (history)
    fault,            \* "none", or the undefined behaviour the last call ran into
    iters,            \* the iterators of the callers, struct dictIterator
    scan,             \* the caller of dictScan: its cursor and what fn was given
    drain,            \* the caller that counts its calls until a rehash ends
    sh                \* the string of the caller of sds.c, struct sdshdr

vars == <<d, dict_can_resize, amap, op, fault, iters, scan, drain, sh>>

---------------------------------------------------------------------------
(* Bounds of the model *)

\* keys are 1..NKeys
NKeys == 3
\* values are 1..NVals
NVals == 2
\* dictExpand is called with a size in 0..MaxExpand
MaxExpand == 5
\* dictRehash is called with n in 0..MaxRehashN
MaxRehashN == 2
\* sizeof(long), sizeof(unsigned long): the bytes of a machine word, scaled down
WordBytes == 1
\* the caller that scans while it inserts has the keys 1..GrowKeys
GrowKeys == 18
\* the caller that scans while it changes the dictionary makes at most
\* MaxScanCalls calls in a scan
MaxScanCalls == 6
\* the caller that fills the dictionary while it iterates has the keys
\* 1..PinnedKeys
PinnedKeys == 6
\* the caller has iterators 1..NIters
NIters == 1
\* random() returns 0..RandomRange-1, and the stream of its values repeats
\* after RandLen values
RandomRange == 8
RandLen == 1
\* dictGetSomeKeys is asked for 0..MaxCount entries
MaxCount == 3

\* the bytes of a string are 0..NBytes, and the caller of sds.c makes strings
\* of at most MaxStrLen bytes
NBytes == 1
MaxStrLen == 3
\* the filling caller inserts the keys 1..FillKeys
FillKeys == 25
\* the inserting caller inserts the keys 1..InsertKeys
InsertKeys == 20

Keys == 1..NKeys
Vals == 1..NVals

---------------------------------------------------------------------------
(* Program constants *)

DICT_OK == 0
DICT_ERR == 1
DICT_HT_INITIAL_SIZE == 4
dict_force_resize_ratio == 5

\* the value of an entry whose value was not set yet, and of a NULL result
NOVAL == 0
\* the NULL entry pointer
NULLENTRY == [t |-> 2, b |-> 0, p |-> 0]

---------------------------------------------------------------------------
(* The type descriptor: the hash of a key and the comparison of two keys *)

\* type->hashFunction(key): the hash function of the dictionary's type.
\* Keys 1 and 2 hash to 4 and 8 and keys 3 and 4 to 1 and 5: each pair shares
\* a bucket in a table of 4 and parts in a table of 8.  Keys 1 and 12 have
\* the same hash.
hashFunction(key) == 4 * (key % 3) + (key \div 3)

dictHashKey(key) == hashFunction(key)

dictCompareKeys(key1, key2) == key1 = key2

\* a & b on naturals
RECURSIVE BitAnd(_, _)
BitAnd(a, b) ==
    IF a = 0 \/ b = 0 THEN 0
    ELSE (a % 2) * (b % 2) + 2 * BitAnd(a \div 2, b \div 2)

---------------------------------------------------------------------------
(* Tables and chains *)

_dictReset == [table |-> <<>>, size |-> 0, sizemask |-> 0, used |-> 0]

\* ht[t] of dictionary dd
HT(dd, t) == dd.ht[t + 1]

\* the chain of bucket i of ht[t]
Chain(dd, t, i) == HT(dd, t).table[i + 1]

dictSize(dd) == HT(dd, 0).used + HT(dd, 1).used

dictIsRehashing(dd) == dd.rehashidx # -1

\* the position of the first entry of chain c whose key compares equal to key,
\* 0 when there is none
RECURSIVE ChainPos(_, _, _)
ChainPos(c, key, p) ==
    IF p > Len(c) THEN 0
    ELSE IF dictCompareKeys(key, c[p].key) THEN p
    ELSE ChainPos(c, key, p + 1)

\* dd with chain c written to bucket i of ht[t]
SetChain(dd, t, i, c) == [dd EXCEPT !.ht[t + 1].table[i + 1] = c]

\* dd with ht[t].used changed by delta
AddUsed(dd, t, delta) == [dd EXCEPT !.ht[t + 1].used = @ + delta]


---------------------------------------------------------------------------
(* Capacity policy *)

\* the width in bits of a machine word, 8 * sizeof(v) in rev
WordBits == 8 * WordBytes

\* LONG_MAX of <limits.h>, on a machine word of WordBits bits
LONG_MAX == 2 ^ (WordBits - 1) - 1

\* the loop of _dictNextPower: i is doubled until i >= size
RECURSIVE NextPowerLoop(_, _)
NextPowerLoop(i, size) == IF i >= size THEN i ELSE NextPowerLoop(i * 2, size)

\* a rounding to the smallest power of two above size
_dictNextPowerAbove(size) ==
    IF size >= LONG_MAX THEN LONG_MAX
    ELSE NextPowerLoop(DICT_HT_INITIAL_SIZE, size + 1)

_dictNextPower(size) ==
    IF size >= LONG_MAX THEN LONG_MAX
    ELSE NextPowerLoop(DICT_HT_INITIAL_SIZE, size)

\* the table dictExpand allocates: realsize empty buckets
NewTable(realsize) ==
    [table |-> [i \in 1..realsize |-> <<>>],
     size |-> realsize,
     sizemask |-> realsize - 1,
     used |-> 0]

\* dictExpand from the comparison of realsize with ht[0].size on
ExpandTo(dd, realsize) ==
    IF realsize = HT(dd, 0).size THEN [d |-> dd, ret |-> DICT_ERR]
    ELSE IF HT(dd, 0).table = <<>>
    THEN [d |-> [dd EXCEPT !.ht[1] = NewTable(realsize)], ret |-> DICT_OK]
    ELSE [d |-> [dd EXCEPT !.ht[2] = NewTable(realsize), !.rehashidx = 0],
          ret |-> DICT_OK]

\* a dictExpand that also refuses a size equal to the number of entries
dictExpandStrict(dd, size) ==
    IF dictIsRehashing(dd) \/ HT(dd, 0).used >= size
    THEN [d |-> dd, ret |-> DICT_ERR]
    ELSE ExpandTo(dd, _dictNextPower(size))

\* dictExpand(d, size): [d |-> the dictionary afterwards, ret |-> DICT_OK or DICT_ERR]
dictExpand(dd, size) ==
    IF dictIsRehashing(dd) \/ HT(dd, 0).used > size
    THEN [d |-> dd, ret |-> DICT_ERR]
    ELSE ExpandTo(dd, _dictNextPower(size))

\* (changed) the resize flag is not looked at
dictResizeUnflagged(dd) ==
    IF dictIsRehashing(dd)
    THEN [d |-> dd, ret |-> DICT_ERR]
    ELSE dictExpand(dd, IF HT(dd, 0).used < DICT_HT_INITIAL_SIZE
                        THEN DICT_HT_INITIAL_SIZE
                        ELSE HT(dd, 0).used)

\* dictResize(d)
dictResize(dd) ==
    IF ~dict_can_resize \/ dictIsRehashing(dd)
    THEN [d |-> dd, ret |-> DICT_ERR]
    ELSE dictExpand(dd, IF HT(dd, 0).used < DICT_HT_INITIAL_SIZE
                        THEN DICT_HT_INITIAL_SIZE
                        ELSE HT(dd, 0).used)

\* a condition that forces the expansion already at the ratio itself
ExpandNeededAtRatio(dd) ==
    /\ HT(dd, 0).used >= HT(dd, 0).size
    /\ \/ dict_can_resize
       \/ HT(dd, 0).used \div HT(dd, 0).size >= dict_force_resize_ratio

\* the condition of the last if of _dictExpandIfNeeded
ExpandNeeded(dd) ==
    /\ HT(dd, 0).used >= HT(dd, 0).size
    /\ \/ dict_can_resize
       \/ HT(dd, 0).used \div HT(dd, 0).size > dict_force_resize_ratio

\* an expansion to the number of entries, not to twice that number
_dictExpandIfNeededOnce(dd) ==
    IF dictIsRehashing(dd) THEN [d |-> dd, ret |-> DICT_OK]
    ELSE IF HT(dd, 0).size = 0 \/ ExpandNeeded(dd)
    THEN dictExpand(dd, IF HT(dd, 0).size = 0 THEN DICT_HT_INITIAL_SIZE
                        ELSE HT(dd, 0).used)
    ELSE [d |-> dd, ret |-> DICT_OK]

\* _dictExpandIfNeeded(d)
_dictExpandIfNeeded(dd) ==
    IF dictIsRehashing(dd) THEN [d |-> dd, ret |-> DICT_OK]
    ELSE IF HT(dd, 0).size = 0 \/ ExpandNeeded(dd)
    THEN dictExpand(dd, IF HT(dd, 0).size = 0 THEN DICT_HT_INITIAL_SIZE
                        ELSE HT(dd, 0).used * 2)
    ELSE [d |-> dd, ret |-> DICT_OK]

---------------------------------------------------------------------------
(* The rehasher *)

\* (changed) the entries are linked at the tail of their bucket of ht[1]
RECURSIVE MoveChainTail(_, _, _)
MoveChainTail(dd, c, p) ==
    IF p > Len(c) THEN dd
    ELSE LET h == BitAnd(dictHashKey(c[p].key), HT(dd, 1).sizemask)
             linked == SetChain(dd, 1, h, Chain(dd, 1, h) \o <<c[p]>>)
         IN  MoveChainTail(AddUsed(AddUsed(linked, 0, -1), 1, 1), c, p + 1)

\* the while (de) loop of dictRehash: the entries of chain c from position p
\* on are linked, one by one, at the head of their bucket of ht[1]
RECURSIVE MoveChain(_, _, _)
MoveChain(dd, c, p) ==
    IF p > Len(c) THEN dd
    ELSE LET h == BitAnd(dictHashKey(c[p].key), HT(dd, 1).sizemask)
             linked == SetChain(dd, 1, h, <<c[p]>> \o Chain(dd, 1, h))
         IN  MoveChain(AddUsed(AddUsed(linked, 0, -1), 1, 1), c, p + 1)

\* (changed) the bucket is left as it is
MoveBucketSkip(dd) == [dd EXCEPT !.rehashidx = @ + 1]

\* one bucket of dictRehash: the chain of ht[0].table[rehashidx] moves to
\* ht[1], the bucket is set to NULL and rehashidx advances
MoveBucket(dd) ==
    [SetChain(MoveChain(dd, Chain(dd, 0, dd.rehashidx), 1), 0, dd.rehashidx, <<>>)
         EXCEPT !.rehashidx = @ + 1]

\* the loop of dictRehash that skips the empty buckets of ht[0] from rehashidx
\* on.  out is "found" at a bucket that is not empty, "limit" when empty_visits
\* reached 0 and "oob" when ht[0].table is read at an index >= ht[0].size.
RECURSIVE SkipEmptyOn(_, _)
SkipEmptyOn(dd, empty_visits) ==
    IF dd.rehashidx >= HT(dd, 0).size
    THEN [d |-> dd, empty_visits |-> empty_visits, out |-> "oob"]
    ELSE IF Chain(dd, 0, dd.rehashidx) # <<>>
    THEN [d |-> dd, empty_visits |-> empty_visits, out |-> "found"]
    ELSE SkipEmptyOn([dd EXCEPT !.rehashidx = @ + 1], empty_visits - 1)

RECURSIVE SkipEmpty(_, _)
SkipEmpty(dd, empty_visits) ==
    IF dd.rehashidx >= HT(dd, 0).size
    THEN [d |-> dd, empty_visits |-> empty_visits, out |-> "oob"]
    ELSE IF Chain(dd, 0, dd.rehashidx) # <<>>
    THEN [d |-> dd, empty_visits |-> empty_visits, out |-> "found"]
    ELSE IF empty_visits - 1 = 0
    THEN [d |-> [dd EXCEPT !.rehashidx = @ + 1], empty_visits |-> 0, out |-> "limit"]
    ELSE SkipEmpty([dd EXCEPT !.rehashidx = @ + 1], empty_visits - 1)

\* the loop while (n-- && d->ht[0].used != 0) of dictRehash; s is the outcome
\* of skipping the empty buckets and out is "end" when the loop ran to its end
RECURSIVE RehashLoop(_, _, _)
RECURSIVE RehashBucket(_, _)
RehashBucket(s, n) ==
    IF s.out # "found" THEN [d |-> s.d, out |-> s.out]
    ELSE RehashLoop(MoveBucket(s.d), n - 1, s.empty_visits)

\* a loop that runs n times, also when ht[0] has no entry left
RehashLoopCounted(dd, n, empty_visits) ==
    IF n = 0 THEN [d |-> dd, out |-> "end"]
    ELSE RehashBucket(SkipEmpty(dd, empty_visits), n)

RehashLoop(dd, n, empty_visits) ==
    IF n = 0 \/ HT(dd, 0).used = 0 THEN [d |-> dd, out |-> "end"]
    ELSE RehashBucket(SkipEmpty(dd, empty_visits), n)

\* a dictRehash that moves ht[1] to ht[0] and does not reset ht[1]
RehashEndCopy(r) ==
    IF r.out = "oob" THEN [d |-> r.d, ret |-> 1, fault |-> "oob"]
    ELSE IF r.out = "limit" THEN [d |-> r.d, ret |-> 1, fault |-> "none"]
    ELSE IF HT(r.d, 0).used = 0
    THEN [d |-> [r.d EXCEPT !.ht = <<r.d.ht[2], r.d.ht[2]>>, !.rehashidx = -1],
          ret |-> 0, fault |-> "none"]
    ELSE [d |-> r.d, ret |-> 1, fault |-> "none"]

\* the end of dictRehash: r is the outcome of the loop
RehashEnd(r) ==
    IF r.out = "oob" THEN [d |-> r.d, ret |-> 1, fault |-> "oob"]
    ELSE IF r.out = "limit" THEN [d |-> r.d, ret |-> 1, fault |-> "none"]
    ELSE IF HT(r.d, 0).used = 0
    THEN [d |-> [r.d EXCEPT !.ht = <<r.d.ht[2], _dictReset>>, !.rehashidx = -1],
          ret |-> 0, fault |-> "none"]
    ELSE [d |-> r.d, ret |-> 1, fault |-> "none"]

\* a dictRehash that looks whether ht[0] is empty before it moves buckets
\* and not after: the call that moves the last bucket leaves the rehash on
RehashLate(r) ==
    [d |-> r.d, ret |-> 1, fault |-> IF r.out = "oob" THEN "oob" ELSE "none"]

dictRehashLate(dd, n) ==
    IF ~dictIsRehashing(dd) THEN [d |-> dd, ret |-> 0, fault |-> "none"]
    ELSE IF HT(dd, 0).used = 0 THEN RehashEnd([d |-> dd, out |-> "end"])
    ELSE RehashLate(RehashLoop(dd, n, n * 10))

\* dictRehash(d, n): [d, ret |-> 0 or 1, fault |-> "oob" when it read
\* ht[0].table out of bounds]
dictRehash(dd, n) ==
    IF ~dictIsRehashing(dd) THEN [d |-> dd, ret |-> 0, fault |-> "none"]
    ELSE RehashEnd(RehashLoop(dd, n, n * 10))

\* the step without the test of d->iterators
_dictRehashStepAlways(dd) == dictRehash(dd, 1)

\* _dictRehashStep(d)
_dictRehashStep(dd) ==
    IF dd.iterators = 0 THEN dictRehash(dd, 1)
    ELSE [d |-> dd, ret |-> 1, fault |-> "none"]

\* a call that forgets the step
StepIfRehashingSkipped(dd) == [d |-> dd, ret |-> 0, fault |-> "none"]

\* if (dictIsRehashing(d)) _dictRehashStep(d);
StepIfRehashing(dd) ==
    IF dictIsRehashing(dd) THEN _dictRehashStep(dd)
    ELSE [d |-> dd, ret |-> 0, fault |-> "none"]

\* dictRehashMilliseconds(d, ms): rounds is the number of rounds of 100
\* buckets after which timeInMilliseconds() - start > ms holds for the first
\* time, and step the outcome of the call of dictRehash in the condition of
\* the while loop.  ret is what the function returns.
RECURSIVE RehashRounds(_, _, _)
RehashRounds(step, rounds, rehashes) ==
    IF step.ret = 0 \/ step.fault # "none"
    THEN [d |-> step.d, ret |-> rehashes, fault |-> step.fault]
    ELSE IF rounds = 1
    THEN [d |-> step.d, ret |-> rehashes + 100, fault |-> "none"]
    ELSE RehashRounds(dictRehash(step.d, 100), rounds - 1, rehashes + 100)

dictRehashMilliseconds(dd, rounds) == RehashRounds(dictRehash(dd, 100), rounds, 0)

---------------------------------------------------------------------------
(* The core operations.  Each returns a record: d is the dictionary         *)
(* afterwards, ret or entry or val what the C function returns, and fault   *)
(* is "none" unless the call ran into undefined behaviour.                  *)

\* the entry a pointer points to
EntryAt(dd, entry) == Chain(dd, entry.t, entry.b)[entry.p]

\* dictSetVal(d, entry, val)
dictSetVal(dd, entry, val) ==
    [dd EXCEPT !.ht[entry.t + 1].table[entry.b + 1][entry.p].val = val]

\* the pointer to the first entry of bucket h & sizemask of ht[t] whose key
\* compares equal to key, NULLENTRY when there is none
LookupIn(dd, t, key, idx) ==
    IF ChainPos(Chain(dd, t, idx), key, 1) = 0 THEN NULLENTRY
    ELSE [t |-> t, b |-> idx, p |-> ChainPos(Chain(dd, t, idx), key, 1)]

\* a search that stops after ht[0], rehashing or not
LookupFirstTable(dd, key) ==
    LookupIn(dd, 0, key, BitAnd(dictHashKey(key), HT(dd, 0).sizemask))

\* the for (table = 0; table <= 1; table++) loop of dictFind, dictGenericDelete
\* and _dictKeyIndex: ht[0] and, while rehashing, ht[1]
Lookup(dd, key) ==
    IF LookupIn(dd, 0, key, BitAnd(dictHashKey(key), HT(dd, 0).sizemask)) # NULLENTRY
    THEN LookupIn(dd, 0, key, BitAnd(dictHashKey(key), HT(dd, 0).sizemask))
    ELSE IF ~dictIsRehashing(dd) THEN NULLENTRY
    ELSE LookupIn(dd, 1, key, BitAnd(dictHashKey(key), HT(dd, 1).sizemask))

\* a _dictKeyIndex that searches the key only in the table the new entry
\* goes to: ht[1] while rehashing
KeyIndexTargetOnly(e, key) ==
    IF e.ret = DICT_ERR THEN [d |-> e.d, index |-> -1]
    ELSE LET t == IF dictIsRehashing(e.d) THEN 1 ELSE 0
             idx == BitAnd(dictHashKey(key), HT(e.d, t).sizemask)
         IN  IF LookupIn(e.d, t, key, idx) # NULLENTRY
             THEN [d |-> e.d, index |-> -1]
             ELSE [d |-> e.d, index |-> idx]

\* _dictKeyIndex after the call of _dictExpandIfNeeded, whose outcome is e
KeyIndexExpanded(e, key) ==
    IF e.ret = DICT_ERR THEN [d |-> e.d, index |-> -1]
    ELSE IF Lookup(e.d, key) # NULLENTRY THEN [d |-> e.d, index |-> -1]
    ELSE [d |-> e.d,
          index |-> BitAnd(dictHashKey(key),
                           HT(e.d, IF dictIsRehashing(e.d) THEN 1 ELSE 0).sizemask)]

\* _dictKeyIndex(d, key): [d, index], index -1 when the key exists
_dictKeyIndex(dd, key) == KeyIndexExpanded(_dictExpandIfNeeded(dd), key)

\* a head insertion that links the entry and leaves ht[t].used as it was
LinkEntryUncounted(dd, t, index, key) ==
    SetChain(dd, t, index, <<[key |-> key, val |-> NOVAL]>> \o Chain(dd, t, index))

\* the head insertion of dictAddRaw: the new entry, its value not set yet,
\* becomes the head of bucket index of ht[t]
LinkEntry(dd, t, index, key) ==
    AddUsed(SetChain(dd, t, index,
                     <<[key |-> key, val |-> NOVAL]>> \o Chain(dd, t, index)),
            t, 1)

\* dictAddRaw after the call of _dictKeyIndex, whose outcome is ki
AddRawIndexed(ki, key, flt) ==
    IF ki.index = -1 THEN [d |-> ki.d, entry |-> NULLENTRY, fault |-> flt]
    ELSE [d |-> LinkEntry(ki.d, IF dictIsRehashing(ki.d) THEN 1 ELSE 0, ki.index, key),
          entry |-> [t |-> IF dictIsRehashing(ki.d) THEN 1 ELSE 0,
                     b |-> ki.index, p |-> 1],
          fault |-> flt]

\* dictAddRaw after the rehash step, whose outcome is s
AddRawStepped(s, key) == AddRawIndexed(_dictKeyIndex(s.d, key), key, s.fault)

\* a dictAddRaw that runs no rehash step
dictAddRawUnstepped(dd, key) ==
    AddRawStepped([d |-> dd, ret |-> 0, fault |-> "none"], key)

\* dictAddRaw(d, key): [d, entry |-> the new entry or NULLENTRY, fault]
dictAddRaw(dd, key) == AddRawStepped(StepIfRehashing(dd), key)

\* a dictAdd that returns DICT_OK for the new entry and never sets its value
AddValUnset(r, val) ==
    IF r.entry = NULLENTRY THEN [d |-> r.d, ret |-> DICT_ERR, fault |-> r.fault]
    ELSE [d |-> r.d, ret |-> DICT_OK, fault |-> r.fault]

\* dictAdd after the call of dictAddRaw, whose outcome is r
AddSetVal(r, val) ==
    IF r.entry = NULLENTRY THEN [d |-> r.d, ret |-> DICT_ERR, fault |-> r.fault]
    ELSE [d |-> dictSetVal(r.d, r.entry, val), ret |-> DICT_OK, fault |-> r.fault]

\* dictAdd(d, key, val): [d, ret |-> DICT_OK or DICT_ERR, fault]
dictAdd(dd, key, val) == AddSetVal(dictAddRaw(dd, key), val)

\* dictFind after the rehash step, whose outcome is s
FindStepped(s, key) == [d |-> s.d, entry |-> Lookup(s.d, key), fault |-> s.fault]

\* dictFind(d, key): [d, entry |-> the entry or NULLENTRY, fault]
dictFind(dd, key) ==
    IF HT(dd, 0).size = 0 THEN [d |-> dd, entry |-> NULLENTRY, fault |-> "none"]
    ELSE FindStepped(StepIfRehashing(dd), key)

\* return he ? dictGetVal(he) : NULL;
FetchFound(he) ==
    [d |-> he.d,
     val |-> IF he.entry = NULLENTRY THEN NOVAL ELSE EntryAt(he.d, he.entry).val,
     fault |-> he.fault]

\* dictFetchValue(d, key): [d, val |-> the value or NOVAL (NULL), fault]
dictFetchValue(dd, key) == FetchFound(dictFind(dd, key))

\* the first fault of two calls made one after the other
Then(flt1, flt2) == IF flt1 # "none" THEN flt1 ELSE flt2

\* a dictReplace that keeps no copy of the entry: it sets the value and then
\* gives the value of the entry, by now the new one, to the value destructor
ReplaceFreesNew(f, val, flt) ==
    IF f.entry = NULLENTRY
    THEN [d |-> f.d, ret |-> 0, freed |-> <<>>,
          fault |-> Then(flt, Then(f.fault, "nullderef"))]
    ELSE [d |-> dictSetVal(f.d, f.entry, val), ret |-> 0,
          freed |-> <<EntryAt(dictSetVal(f.d, f.entry, val), f.entry).val>>,
          fault |-> Then(flt, f.fault)]

\* dictReplace after dictAdd failed and dictFind returned f: the entry is
\* copied to auxentry, the value is set and the old value is given to the
\* value destructor.  Copying the entry dereferences f.entry.
ReplaceFound(f, val, flt) ==
    IF f.entry = NULLENTRY
    THEN [d |-> f.d, ret |-> 0, freed |-> <<>>,
          fault |-> Then(flt, Then(f.fault, "nullderef"))]
    ELSE [d |-> dictSetVal(f.d, f.entry, val), ret |-> 0,
          freed |-> <<EntryAt(f.d, f.entry).val>>,
          fault |-> Then(flt, f.fault)]

\* dictReplace after the call of dictAdd, whose outcome is a
ReplaceAdded(a, key, val) ==
    IF a.ret = DICT_OK THEN [d |-> a.d, ret |-> 1, freed |-> <<>>, fault |-> a.fault]
    ELSE ReplaceFound(dictFind(a.d, key), val, a.fault)

\* dictReplace(d, key, val): [d, ret |-> 1 inserted or 0 replaced,
\* freed |-> the values given to the value destructor, fault]
dictReplace(dd, key, val) == ReplaceAdded(dictAdd(dd, key, val), key, val)

\* chain c without its entry at position p
Unlink(c, p) == SubSeq(c, 1, p - 1) \o SubSeq(c, p + 1, Len(c))

\* a dictGenericDelete that unlinks the entry and decrements ht[0].used,
\* whichever table held the entry
DeleteCountsFirst(dd, he, nofree, flt) ==
    IF he = NULLENTRY THEN [d |-> dd, ret |-> DICT_ERR, freed |-> <<>>, fault |-> flt]
    ELSE [d |-> AddUsed(SetChain(dd, he.t, he.b, Unlink(Chain(dd, he.t, he.b), he.p)),
                        0, -1),
          ret |-> DICT_OK,
          freed |-> IF nofree THEN <<>> ELSE <<EntryAt(dd, he)>>,
          fault |-> flt]

\* dictGenericDelete once the entry he was found: it is unlinked, its key and
\* value are given to the destructors unless nofree, and used is decremented
DeleteFound(dd, he, nofree, flt) ==
    IF he = NULLENTRY THEN [d |-> dd, ret |-> DICT_ERR, freed |-> <<>>, fault |-> flt]
    ELSE [d |-> AddUsed(SetChain(dd, he.t, he.b, Unlink(Chain(dd, he.t, he.b), he.p)),
                        he.t, -1),
          ret |-> DICT_OK,
          freed |-> IF nofree THEN <<>> ELSE <<EntryAt(dd, he)>>,
          fault |-> flt]

\* dictGenericDelete after the rehash step, whose outcome is s
DeleteStepped(s, key, nofree) == DeleteFound(s.d, Lookup(s.d, key), nofree, s.fault)

\* dictGenericDelete(d, key, nofree): [d, ret |-> DICT_OK or DICT_ERR,
\* freed |-> the entries whose key and value were given to the destructors, fault]
dictGenericDelete(dd, key, nofree) ==
    IF HT(dd, 0).size = 0
    THEN [d |-> dd, ret |-> DICT_ERR, freed |-> <<>>, fault |-> "none"]
    ELSE DeleteStepped(StepIfRehashing(dd), key, nofree)

\* dictDelete(d, key)
dictDelete(dd, key) == dictGenericDelete(dd, key, FALSE)

---------------------------------------------------------------------------
(* The contents of the two tables, read off the chains *)

\* the pointers to the entries linked in the chains of ht[t]
PointersIn(dd, t) ==
    UNION {{[t |-> t, b |-> b, p |-> p] : p \in 1..Len(Chain(dd, t, b))}
               : b \in 0..(Len(HT(dd, t).table) - 1)}

\* the pointers to the entries linked in the chains of the two tables
Pointers(dd) == PointersIn(dd, 0) \cup PointersIn(dd, 1)

\* the entries linked in the two tables, as [key, val] records
Entries(dd) == {EntryAt(dd, e) : e \in Pointers(dd)}

\* the keys of the entries linked in the two tables
LiveKeys(dd) == {EntryAt(dd, e).key : e \in Pointers(dd)}

\* the number of entries of the two tables whose key compares equal to key
KeyCount(dd, key) ==
    Cardinality({e \in Pointers(dd) : dictCompareKeys(key, EntryAt(dd, e).key)})

\* the value of the entry that holds key
ValueOf(dd, key) == (CHOOSE e \in Entries(dd) : e.key = key).val

\* the table, 0 or 1, whose chains hold the entry of key
HolderOf(dd, key) ==
    CHOOSE t \in 0..1 : \E e \in PointersIn(dd, t) : EntryAt(dd, e).key = key

\* the powers of two an unsigned long of WordBits bits can hold
PowersOfTwo == {2 ^ i : i \in 0..(WordBits - 1)}

\* the smallest power of two that is >= n and >= DICT_HT_INITIAL_SIZE
TargetSize(n) ==
    CHOOSE p \in PowersOfTwo :
        /\ p >= n
        /\ p >= DICT_HT_INITIAL_SIZE
        /\ \A q \in PowersOfTwo : q >= n /\ q >= DICT_HT_INITIAL_SIZE => p <= q

\* the capacity of the dictionary: the size of the table new entries are
\* linked into, ht[1] while a rehash is in progress and ht[0] otherwise
Capacity(dd) == IF dictIsRehashing(dd) THEN HT(dd, 1).size ELSE HT(dd, 0).size

\* both tables hold entries while a rehash is in progress
SplitOverTables(dd) ==
    /\ dictIsRehashing(dd)
    /\ HT(dd, 0).used > 0
    /\ HT(dd, 1).used > 0

---------------------------------------------------------------------------
(* dictScan.  A cursor is an unsigned long: a natural below 2^WordBits. *)

\* the values of an unsigned long
WordSize == 2 ^ WordBits

\* a | b and a ^ b on naturals
RECURSIVE BitOr(_, _)
BitOr(a, b) ==
    IF a = 0 THEN b
    ELSE IF b = 0 THEN a
    ELSE (IF (a % 2) + (b % 2) > 0 THEN 1 ELSE 0) + 2 * BitOr(a \div 2, b \div 2)

RECURSIVE BitXor(_, _)
BitXor(a, b) ==
    IF a = 0 THEN b
    ELSE IF b = 0 THEN a
    ELSE (((a % 2) + (b % 2)) % 2) + 2 * BitXor(a \div 2, b \div 2)

\* ~a, a << s and a >> s on an unsigned long
BitNot(a) == WordSize - 1 - a
ShiftLeft(a, s) == (a * 2 ^ s) % WordSize
ShiftRight(a, s) == a \div (2 ^ s)

\* the loop while ((s >>= 1) > 0) of rev, entered with s already halved
RECURSIVE RevLoop(_, _, _)
RevLoop(v, s, mask) ==
    IF s = 0 THEN v
    ELSE LET m == BitXor(mask, ShiftLeft(mask, s))
         IN  RevLoop(BitOr(BitAnd(ShiftRight(v, s), m),
                           BitAnd(ShiftLeft(v, s), BitNot(m))),
                     s \div 2, m)

\* rev(v): the bits of v in reverse order
rev(v) == RevLoop(v, (8 * WordBytes) \div 2, BitNot(0))

\* the elements of sequence q
Range(q) == {q[i] : i \in DOMAIN q}

\* the keys of chain c in the order of the chain: what the loop
\* while (de) { fn(privdata, de); de = de->next; } hands to fn
Emit(c) == [p \in 1..Len(c) |-> c[p].key]

\* a scan of the larger table that reads the bucket of the cursor only and
\* not the other buckets the bucket of the smaller table expands to
ScanLargerOnce(dd, t1, m0, m1, r) ==
    [v |-> r.v,
     keys |-> r.keys \o Emit(Chain(dd, t1, BitAnd(r.v, m1))),
     buckets |-> Append(r.buckets, <<t1, BitAnd(r.v, m1)>>)]

\* the do ... while (v & (m0 ^ m1)) loop of dictScan over the larger table,
\* ht[t1]; r is [v, keys, buckets]: the cursor, the keys handed to fn so far
\* and the buckets read so far
RECURSIVE ScanLarger(_, _, _, _, _)
ScanLarger(dd, t1, m0, m1, r) ==
    LET b == BitAnd(r.v, m1)
        v == BitOr(BitAnd((BitOr(r.v, m0) + 1) % WordSize, BitNot(m0)),
                   BitAnd(r.v, m0))
        n == [v |-> v,
              keys |-> r.keys \o Emit(Chain(dd, t1, b)),
              buckets |-> Append(r.buckets, <<t1, b>>)]
    IN  IF BitAnd(v, BitXor(m0, m1)) # 0 THEN ScanLarger(dd, t1, m0, m1, n)
        ELSE n

\* the body of dictScan up to the advance of the cursor: the bucket of the
\* cursor in ht[0], or in the smaller table and its expansion in the larger
\* one while rehashing.  m0 is the mask of the smaller table.
ScanEmit(dd, v) ==
    IF ~dictIsRehashing(dd)
    THEN LET m0 == HT(dd, 0).sizemask
         IN  [v |-> v, m0 |-> m0,
              keys |-> Emit(Chain(dd, 0, BitAnd(v, m0))),
              buckets |-> <<<<0, BitAnd(v, m0)>>>>]
    ELSE LET t0 == IF HT(dd, 0).size > HT(dd, 1).size THEN 1 ELSE 0
             t1 == 1 - t0
             m0 == HT(dd, t0).sizemask
             m1 == HT(dd, t1).sizemask
             r  == ScanLarger(dd, t1, m0, m1,
                       [v |-> v,
                        keys |-> Emit(Chain(dd, t0, BitAnd(v, m0))),
                        buckets |-> <<<<t0, BitAnd(v, m0)>>>>])
         IN  [v |-> r.v, m0 |-> m0, keys |-> r.keys, buckets |-> r.buckets]

\* an advance of the cursor that leaves out v |= ~m0
ScanAdvanceUnmasked(v, m0) == rev((rev(v) + 1) % WordSize)

\* the end of dictScan: v |= ~m0; v = rev(v); v++; v = rev(v);
ScanAdvance(v, m0) == rev((rev(BitOr(v, BitNot(m0))) + 1) % WordSize)

\* the cursor the call that emitted e returns
ScanReturn(e) ==
    [v |-> ScanAdvance(e.v, e.m0), keys |-> e.keys, buckets |-> e.buckets]

\* dictScan(d, v, fn, privdata): v is the cursor returned, keys the keys of
\* the entries handed to fn, in this order, and buckets the buckets read, as
\* <<table, index>>
dictScan(dd, v) ==
    IF dictSize(dd) = 0 THEN [v |-> 0, keys |-> <<>>, buckets |-> <<>>]
    ELSE ScanReturn(ScanEmit(dd, v))

---------------------------------------------------------------------------
(* dictFingerprint.  A long long is kept as its four 16-bit limbs, least   *)
(* significant first; the arithmetic wraps at 64 bits and >> copies the    *)
(* sign bit, as in the two's complement builds of the program.             *)

Limb == 65536

\* the long long of a natural below 2^31
LongLong(n) == <<n % Limb, n \div Limb, 0, 0>>

\* limb j of a, fill beyond the ends
LimbAt(a, j, fill) == IF j < 1 \/ j > 4 THEN fill ELSE a[j]

\* a + b, from limb i on with the carry of the limbs below
RECURSIVE AddLimbs(_, _, _, _)
AddLimbs(a, b, i, carry) ==
    IF i > 4 THEN <<>>
    ELSE <<(a[i] + b[i] + carry) % Limb>>
             \o AddLimbs(a, b, i + 1, (a[i] + b[i] + carry) \div Limb)

Add64(a, b) == AddLimbs(a, b, 1, 0)

\* ~a and a ^ b
Not64(a) == <<Limb - 1 - a[1], Limb - 1 - a[2], Limb - 1 - a[3], Limb - 1 - a[4]>>
Xor64(a, b) ==
    <<BitXor(a[1], b[1]), BitXor(a[2], b[2]), BitXor(a[3], b[3]), BitXor(a[4], b[4])>>

\* a << k: its limb i, and the four limbs
ShlLimb(a, k, i) ==
    (LimbAt(a, i - (k \div 16), 0) % 2 ^ (16 - (k % 16))) * 2 ^ (k % 16)
    + LimbAt(a, i - (k \div 16) - 1, 0) \div 2 ^ (16 - (k % 16))

Shl64(a, k) == <<ShlLimb(a, k, 1), ShlLimb(a, k, 2), ShlLimb(a, k, 3), ShlLimb(a, k, 4)>>

\* a >> k of a signed long long: its limb i, the limbs beyond the most
\* significant one being copies of the sign bit, and the four limbs
SarLimb(a, k, i, fill) ==
    LimbAt(a, i + (k \div 16), fill) \div 2 ^ (k % 16)
    + (LimbAt(a, i + (k \div 16) + 1, fill) % 2 ^ (k % 16)) * 2 ^ (16 - (k % 16))

SignFill(a) == IF a[4] >= Limb \div 2 THEN Limb - 1 ELSE 0

Sar64(a, k) ==
    <<SarLimb(a, k, 1, SignFill(a)), SarLimb(a, k, 2, SignFill(a)),
      SarLimb(a, k, 3, SignFill(a)), SarLimb(a, k, 4, SignFill(a))>>

\* the seven statements of the body of the for loop of dictFingerprint
Mix1(h) == Add64(Not64(h), Shl64(h, 21))
Mix2(h) == Xor64(h, Sar64(h, 24))
Mix3(h) == Add64(Add64(h, Shl64(h, 3)), Shl64(h, 8))
Mix4(h) == Xor64(h, Sar64(h, 14))
Mix5(h) == Add64(Add64(h, Shl64(h, 2)), Shl64(h, 4))
Mix6(h) == Xor64(h, Sar64(h, 28))
Mix7(h) == Add64(h, Shl64(h, 31))

\* the body of the for loop of dictFingerprint: hash += integers[j] and
\* the seven statements
MixBody(hash, integer) ==
    Mix7(Mix6(Mix5(Mix4(Mix3(Mix2(Mix1(Add64(hash, LongLong(integer)))))))))

\* the for loop of dictFingerprint over integers[j..5], hash so far; h is
\* the value of hash after the body
RECURSIVE MixLoop(_, _, _)
MixLoop(integers, j, hash) ==
    IF j > Len(integers) THEN hash
    ELSE CHOOSE r \in {MixLoop(integers, j + 1, h) :
                          h \in {MixBody(hash, integers[j])}} : TRUE

\* (long) d->ht[t].table: the address zcalloc gave the table.  Two tables of
\* the dictionary never have the same size, and the allocator is taken to
\* place a table of size buckets at HeapBase + 8 * size.
HeapBase == 4096
TableAddress(ht) == IF ht.table = <<>> THEN 0 ELSE HeapBase + 8 * ht.size

\* dictFingerprint(d)
dictFingerprint(dd) ==
    MixLoop(<<TableAddress(HT(dd, 0)), HT(dd, 0).size, HT(dd, 0).used,
              TableAddress(HT(dd, 1)), HT(dd, 1).size, HT(dd, 1).used>>,
            1, LongLong(0))

---------------------------------------------------------------------------
(* Iterators.  A pointer to an entry that an iterator keeps is the record   *)
(* [key, freed]: the key of the entry, which names the entry wherever a     *)
(* rehash moves it, and whether the entry was freed since the pointer was   *)
(* taken.  key 0 is NULL.                                                    *)

NOPTR == [key |-> 0, freed |-> FALSE]

\* no iterator: the caller's slot before dictGetIterator and after
\* dictReleaseIterator
NoIterator ==
    [open |-> FALSE, table |-> 0, index |-> -1, safe |-> FALSE,
     entry |-> NOPTR, nextEntry |-> NOPTR, fingerprint |-> <<>>]

\* the pointers to the entry of key that the iterators its keep now dangle
Freed(its, key) ==
    [i \in DOMAIN its |->
        [its[i] EXCEPT
            !.entry = IF @.key = key THEN [@ EXCEPT !.freed = TRUE] ELSE @,
            !.nextEntry = IF @.key = key THEN [@ EXCEPT !.freed = TRUE] ELSE @]]

\* the pointer to the entry of key
PointerTo(key) == [key |-> key, freed |-> FALSE]

\* ht[t].table[i]: the pointer to the head of the bucket, NULL when empty
HeadOf(dd, t, i) ==
    IF Chain(dd, t, i) = <<>> THEN NOPTR ELSE PointerTo(Chain(dd, t, i)[1].key)

\* e->next of the entry at e
NextAt(dd, e) ==
    IF e.p = Len(Chain(dd, e.t, e.b)) THEN NOPTR
    ELSE PointerTo(Chain(dd, e.t, e.b)[e.p + 1].key)

\* entry->next of the entry of key, which is linked in one of the tables
NextOf(dd, key) ==
    NextAt(dd, CHOOSE e \in Pointers(dd) : EntryAt(dd, e).key = key)

\* dictGetIterator(d)
dictGetIterator == [NoIterator EXCEPT !.open = TRUE]

\* dictGetSafeIterator(d)
dictGetSafeIterator == [dictGetIterator EXCEPT !.safe = TRUE]

\* (changed) an iterator that ends after the last bucket of ht[0]
NextBucketInFirst(dd, it) ==
    IF it.index + 1 >= HT(dd, it.table).size
    THEN [d |-> dd, out |-> "break", it |-> [it EXCEPT !.index = @ + 1]]
    ELSE [d |-> dd, out |-> "entry",
          it |-> [it EXCEPT !.index = @ + 1,
                            !.entry = HeadOf(dd, it.table, it.index + 1)]]

\* the branch if (iter->entry == NULL) of dictNext: the first call counts
\* the safe iterator in or records the fingerprint, and the iterator moves
\* to the next bucket, of ht[1] after the last one of ht[0] while rehashing.
\* out is "break" past the last bucket.
NextBucketIn(dd, it) ==
    IF it.index + 1 >= HT(dd, it.table).size
    THEN IF dictIsRehashing(dd) /\ it.table = 0
         THEN [d |-> dd, out |-> "entry",
               it |-> [it EXCEPT !.table = 1, !.index = 0,
                                 !.entry = HeadOf(dd, 1, 0)]]
         ELSE [d |-> dd, out |-> "break",
               it |-> [it EXCEPT !.index = @ + 1]]
    ELSE [d |-> dd, out |-> "entry",
          it |-> [it EXCEPT !.index = @ + 1,
                            !.entry = HeadOf(dd, it.table, it.index + 1)]]

NextBucket(dd, it) ==
    IF it.index = -1 /\ it.table = 0
    THEN IF it.safe
         THEN NextBucketIn([dd EXCEPT !.iterators = @ + 1], it)
         ELSE NextBucketIn(dd, [it EXCEPT !.fingerprint = dictFingerprint(dd)])
    ELSE NextBucketIn(dd, it)

\* the while (1) loop of dictNext.  The outcome is [d, it, entry, fault]:
\* entry is the pointer returned, and fault is "use-after-free" when the loop
\* read iter->entry->next of an entry that was freed.
RECURSIVE NextLoop(_, _)
RECURSIVE NextEntry(_)
NextEntry(b) ==
    IF b.out = "break"
    THEN [d |-> b.d, it |-> b.it, entry |-> NOPTR, fault |-> "none"]
    ELSE IF b.it.entry = NOPTR THEN NextLoop(b.d, b.it)
    ELSE IF b.it.entry.freed
    THEN [d |-> b.d, it |-> b.it, entry |-> b.it.entry, fault |-> "use-after-free"]
    ELSE [d |-> b.d,
          it |-> [b.it EXCEPT !.nextEntry = NextOf(b.d, b.it.entry.key)],
          entry |-> b.it.entry, fault |-> "none"]

NextLoop(dd, it) ==
    IF it.entry = NOPTR THEN NextEntry(NextBucket(dd, it))
    ELSE NextEntry([d |-> dd, out |-> "entry",
                    it |-> [it EXCEPT !.entry = it.nextEntry]])

\* dictNext(iter)
dictNext(dd, it) == NextLoop(dd, it)

\* dictReleaseIterator(iter): an iterator that was advanced is counted out
\* when it is safe; nothing is compared when it is not.  The slot is free
\* afterwards.
dictReleaseIterator(dd, it) ==
    IF ~(it.index = -1 /\ it.table = 0) /\ it.safe
    THEN [d |-> [dd EXCEPT !.iterators = @ - 1], it |-> NoIterator]
    ELSE [d |-> dd, it |-> NoIterator]

(* random(): the values it gives are the stream rnd: call k (from 0)        *)
(* returns rnd[k + 1], and the stream repeats after Len(rnd) values.        *)

random(rnd, k) == rnd[(k % Len(rnd)) + 1]

\* (changed) h is drawn from the whole of both tables, above rehashidx
RandomPositionWhole(dd, rnd, k) ==
    IF dictIsRehashing(dd)
    THEN dd.rehashidx + (random(rnd, k) % (HT(dd, 0).size + HT(dd, 1).size))
    ELSE BitAnd(random(rnd, k), HT(dd, 0).sizemask)

\* h of one round of the do-while loops of dictGetRandomKey, drawn with call
\* k of random()
RandomPosition(dd, rnd, k) ==
    IF dictIsRehashing(dd)
    THEN dd.rehashidx
             + (random(rnd, k) % (HT(dd, 0).size + HT(dd, 1).size - dd.rehashidx))
    ELSE BitAnd(random(rnd, k), HT(dd, 0).sizemask)

\* the bucket he is read from, as <<table, index>>
RandomBucket(dd, h) ==
    IF dictIsRehashing(dd) /\ h >= HT(dd, 0).size
    THEN <<1, h - HT(dd, 0).size>>
    ELSE <<0, h>>

\* the do-while loops: drawn is the set of the h drawn so far.  The outcome
\* has returns FALSE when the loop never ends, every value of the stream
\* leading to an empty bucket, and fault "out-of-bounds" when h is no bucket
\* of the table it is read from.
RECURSIVE RandomLoop(_, _, _, _)
RandomLoop(dd, rnd, k, drawn) ==
    LET h == RandomPosition(dd, rnd, k)
        b == RandomBucket(dd, h)
    IN  IF b[2] >= HT(dd, b[1]).size
        THEN [returns |-> TRUE, b |-> b, k |-> k + 1, drawn |-> drawn \cup {h},
              fault |-> "out-of-bounds"]
        ELSE IF Chain(dd, b[1], b[2]) # <<>>
        THEN [returns |-> TRUE, b |-> b, k |-> k + 1, drawn |-> drawn \cup {h},
              fault |-> "none"]
        ELSE IF k + 1 >= Len(rnd)
        THEN [returns |-> FALSE, b |-> b, k |-> k + 1, drawn |-> drawn \cup {h},
              fault |-> "none"]
        ELSE RandomLoop(dd, rnd, k + 1, drawn \cup {h})

\* listlen is the length of the chain found, listele = random() % listlen,
\* and the entry returned is the one listele places after the head
RandomListElement(dd, l, rnd) ==
    IF ~l.returns \/ l.fault # "none"
    THEN [d |-> dd, returns |-> l.returns, entry |-> NULLENTRY,
          drawn |-> l.drawn, fault |-> l.fault]
    ELSE [d |-> dd, returns |-> TRUE,
          entry |-> [t |-> l.b[1], b |-> l.b[2],
                     p |-> 1 + (random(rnd, l.k) % Len(Chain(dd, l.b[1], l.b[2])))],
          drawn |-> l.drawn, fault |-> "none"]

\* dictGetRandomKey after its rehash step, which left s
RandomStepped(s, rnd) ==
    IF s.fault # "none"
    THEN [d |-> s.d, returns |-> TRUE, entry |-> NULLENTRY, drawn |-> {},
          fault |-> s.fault]
    ELSE RandomListElement(s.d, RandomLoop(s.d, rnd, 0, {}), rnd)

\* dictGetRandomKey(d) with the stream rnd of random(): entry is the entry
\* returned, NULLENTRY for NULL, and drawn the set of the h drawn
dictGetRandomKey(dd, rnd) ==
    IF dictSize(dd) = 0
    THEN [d |-> dd, returns |-> TRUE, entry |-> NULLENTRY, drawn |-> {},
          fault |-> "none"]
    ELSE RandomStepped(StepIfRehashing(dd), rnd)

(* Emptying the dictionary *)

\* (changed) the loop of _dictClear stops at the first empty bucket
RECURSIVE ClearLoopToGap(_, _, _)
ClearLoopToGap(ht, i, c) ==
    IF ~(i < ht.size /\ ht.used > 0) \/ ht.table[i + 1] = <<>> THEN [c EXCEPT !.ht = ht]
    ELSE ClearLoopToGap([ht EXCEPT !.used = @ - Len(ht.table[i + 1])], i + 1,
                        [c EXCEPT !.freed = @ \cup Range(Emit(ht.table[i + 1]))])

\* for (i = 0; i < ht->size && ht->used > 0; i++) of _dictClear, from bucket
\* i: the chain of the bucket is freed entry by entry and used counts down.
\* c has the keys of the entries freed so far and the number of calls of
\* callback, which is called when (i & 65535) == 0.
RECURSIVE ClearLoop(_, _, _)
ClearLoop(ht, i, c) ==
    IF ~(i < ht.size /\ ht.used > 0) THEN [c EXCEPT !.ht = ht]
    ELSE ClearLoop([ht EXCEPT !.used = @ - Len(ht.table[i + 1])], i + 1,
                   [c EXCEPT !.freed = @ \cup Range(Emit(ht.table[i + 1])),
                             !.calls = IF BitAnd(i, 65535) = 0 THEN @ + 1 ELSE @])

\* zfree(ht->table); _dictReset(ht): leaked is the keys of the entries the
\* loop left allocated
ClearTable(ht, c) ==
    [ht |-> _dictReset, freed |-> c.freed, calls |-> c.calls,
     leaked |-> UNION {Range(Emit(ht.table[i])) : i \in DOMAIN ht.table} \ c.freed]

\* _dictClear(d, ht, callback)
_dictClear(ht) ==
    ClearTable(ht, ClearLoop(ht, 0, [ht |-> ht, freed |-> {}, calls |-> 0]))

\* the dictionary after both tables were cleared
EmptyBoth(c0, c1) ==
    [d |-> [ht |-> <<c0.ht, c1.ht>>, rehashidx |-> -1, iterators |-> 0],
     freed |-> c0.freed \cup c1.freed, leaked |-> c0.leaked \cup c1.leaked,
     calls |-> c0.calls + c1.calls, fault |-> "none"]

\* dictEmpty(d, callback)
dictEmpty(dd) == EmptyBoth(_dictClear(HT(dd, 0)), _dictClear(HT(dd, 1)))

\* the pointers to the entries of keys that the iterators its keep now dangle
FreedAll(its, keys) ==
    [i \in DOMAIN its |->
        [its[i] EXCEPT
            !.entry = IF @.key \in keys THEN [@ EXCEPT !.freed = TRUE] ELSE @,
            !.nextEntry = IF @.key \in keys THEN [@ EXCEPT !.freed = TRUE] ELSE @]]

(* Sampling *)

\* for (j = 0; j < count; j++) { if rehashing then _dictRehashStep(d) else
\* break }: r is the outcome of the steps so far
RECURSIVE SomeKeysRehash(_, _, _)
SomeKeysRehash(r, j, count) ==
    IF j >= count \/ ~dictIsRehashing(r.d) \/ r.fault # "none" THEN r
    ELSE SomeKeysRehash(_dictRehashStep(r.d), j + 1, count)

\* maxsizemask: the mask of the larger of the tables in use
MaxSizeMask(dd) ==
    IF dictIsRehashing(dd) /\ HT(dd, 0).sizemask < HT(dd, 1).sizemask
    THEN HT(dd, 1).sizemask
    ELSE HT(dd, 0).sizemask

\* the locals of dictGetSomeKeys when the sampling starts: i the position,
\* emptylen, stored, maxsteps, des the slots of the caller's array (NULLENTRY
\* is a slot not written), k the number of calls of random() so far, steps
\* the number of positions inspected, done set by the return inside the loop
SampleStart(dd, room, count, rnd) ==
    [i |-> BitAnd(random(rnd, 0), MaxSizeMask(dd)), emptylen |-> 0,
     stored |-> 0, maxsteps |-> count * 10,
     des |-> [n \in 1..room |-> NULLENTRY],
     k |-> 1, steps |-> 0, done |-> FALSE]

\* (changed) the chain is collected to its end, whatever count is
RECURSIVE SampleChainAll(_, _, _, _, _)
SampleChainAll(dd, s, j, p, count) ==
    IF p > Len(Chain(dd, j, s.i)) THEN [s EXCEPT !.done = s.stored >= count]
    ELSE SampleChainAll(dd, [s EXCEPT !.des = [n \in DOMAIN @ \cup {s.stored + 1} |->
                                                  IF n = s.stored + 1
                                                  THEN [t |-> j, b |-> s.i, p |-> p]
                                                  ELSE @[n]],
                                      !.stored = @ + 1],
                        j, p + 1, count)

\* while (he) { *des = he; des++; he = he->next; stored++;
\*              if (stored == count) return stored; }
\* from the entry at position p of the chain of bucket s.i of ht[j]
RECURSIVE SampleChain(_, _, _, _, _)
SampleChain(dd, s, j, p, count) ==
    IF p > Len(Chain(dd, j, s.i)) THEN s
    ELSE IF s.stored + 1 = count
    THEN [s EXCEPT !.des[s.stored + 1] = [t |-> j, b |-> s.i, p |-> p],
                   !.stored = @ + 1, !.done = TRUE]
    ELSE SampleChain(dd, [s EXCEPT !.des[s.stored + 1] = [t |-> j, b |-> s.i, p |-> p],
                                   !.stored = @ + 1],
                     j, p + 1, count)

\* if (he == NULL) { emptylen++; jump when emptylen >= 5 && emptylen > count }
SampleEmpty(dd, s, count, rnd) ==
    IF s.emptylen + 1 >= 5 /\ s.emptylen + 1 > count
    THEN [s EXCEPT !.i = BitAnd(random(rnd, s.k), MaxSizeMask(dd)),
                   !.emptylen = 0, !.k = @ + 1]
    ELSE [s EXCEPT !.emptylen = @ + 1]

\* the body of for (j = 0; j < tables; j++) for table j
SampleTable(dd, s, j, count, rnd) ==
    IF dictIsRehashing(dd) /\ j = 0 /\ s.i < dd.rehashidx
    THEN [s EXCEPT !.i = IF s.i >= HT(dd, 1).size THEN dd.rehashidx ELSE s.i]
    ELSE IF s.i >= HT(dd, j).size THEN s
    ELSE IF Chain(dd, j, s.i) = <<>> THEN SampleEmpty(dd, s, count, rnd)
    ELSE SampleChain(dd, [s EXCEPT !.emptylen = 0], j, 1, count)

\* the second table of the for loop, and i = (i + 1) & maxsizemask
SampleSecond(dd, s, count, rnd) ==
    IF s.done \/ ~dictIsRehashing(dd) THEN s
    ELSE SampleTable(dd, s, 1, count, rnd)

\* (changed) the position is not advanced
SampleAdvanceStay(dd, s) == s

SampleAdvance(dd, s) ==
    IF s.done THEN s ELSE [s EXCEPT !.i = BitAnd(s.i + 1, MaxSizeMask(dd))]

\* one round of while (stored < count && maxsteps--)
SampleStep(dd, s, count, rnd) ==
    SampleAdvance(dd,
        SampleSecond(dd,
            SampleTable(dd, [s EXCEPT !.maxsteps = @ - 1, !.steps = @ + 1],
                        0, count, rnd),
            count, rnd))

RECURSIVE SampleLoop(_, _, _, _)
SampleLoop(dd, s, count, rnd) ==
    IF s.done \/ s.stored >= count \/ s.maxsteps = 0 THEN s
    ELSE CHOOSE r \in {SampleLoop(dd, n, count, rnd) :
                          n \in {SampleStep(dd, s, count, rnd)}} : TRUE

\* the sampling of dictGetSomeKeys after its rehash steps, which left r
SomeKeysSample(r, room, count, rnd) ==
    IF r.fault # "none"
    THEN [d |-> r.d, ret |-> 0, des |-> [n \in 1..room |-> NULLENTRY],
          steps |-> 0, jumps |-> 0, fault |-> r.fault]
    ELSE LET s == SampleLoop(r.d, SampleStart(r.d, room, count, rnd), count, rnd)
         IN  [d |-> r.d, ret |-> s.stored, des |-> s.des, steps |-> s.steps,
              jumps |-> s.k - 1, fault |-> "none"]

\* (changed) count is not limited to the number of entries
SomeKeysCountUnclamped(dd, count) == count

\* if (dictSize(d) < count) count = dictSize(d);
SomeKeysCount(dd, count) == IF dictSize(dd) < count THEN dictSize(dd) ELSE count

\* dictGetSomeKeys(d, des, count) with the stream rnd of random(): ret is
\* the number returned, des the caller's array of count slots afterwards,
\* steps the number of positions inspected and jumps the number of jumps
dictGetSomeKeys(dd, count, rnd) ==
    SomeKeysSample(
        SomeKeysRehash([d |-> dd, ret |-> 0, fault |-> "none"], 0,
                       SomeKeysCount(dd, count)),
        count, SomeKeysCount(dd, count), rnd)

\* the caller of dictScan before its first call
NoScan ==
    [on |-> FALSE, v |-> 0, seen |-> {}, stay |-> {}, calls |-> 0,
     log |-> FALSE, reads |-> 0, buckets |-> {}]

\* the caller that drains a rehash, before it starts
NoDrain == [on |-> FALSE, calls |-> 0, size |-> 0]

---------------------------------------------------------------------------
(* sds.c.  A string (struct sdshdr) is the record [len, free, buf].  A      *)
(* size_t is kept as four 16-bit limbs like a long long; the fields len and *)
(* free are unsigned int, a size_t below 2^32.  buf is the sequence of the  *)
(* bytes of the allocation that were written so far (byte i at position     *)
(* i+1); the bytes behind it are allocated and uninitialized.  A byte is a  *)
(* natural of 0..NBytes, 0 being '\0'.                                      *)

SDS_MAX_PREALLOC == 1048576

\* the size_t of the natural n
SizeT(n) == <<n % Limb, n \div Limb, 0, 0>>

\* the natural of a size_t that is small enough to count bytes of buf
Natural(a) == a[1] + Limb * a[2]

\* (unsigned int) a: the conversion keeps the low 32 bits
UnsignedInt(a) == <<a[1], a[2], 0, 0>>

\* a - b and a < b on size_t
Sub64(a, b) == Add64(a, Add64(Not64(b), SizeT(1)))
Less64(a, b) == \E i \in 1..4 : a[i] < b[i] /\ \A j \in (i + 1)..4 : a[j] = b[j]

Bytes == 0..NBytes

\* the byte strings of at most n bytes
StringsUpTo(n) == UNION {[1..k -> Bytes] : k \in 0..n}

\* sdsnewlen(init, initlen) with initlen the length of init
sdsnewlen(init) == [len |-> SizeT(Len(init)), free |-> SizeT(0), buf |-> init \o <<0>>]

\* the string of s: the first len bytes of buf
sdsString(s) == SubSeq(s.buf, 1, Natural(s.len))

\* strlen(s): the bytes in front of the first '\0', -1 when the bytes written
\* so far hold none
strlen(buf) ==
    IF \E i \in 1..Len(buf) : buf[i] = 0
    THEN (CHOOSE i \in 1..Len(buf) : buf[i] = 0 /\ \A j \in 1..(i - 1) : buf[j] # 0) - 1
    ELSE -1

\* sdsupdatelen
sdsupdatelen(s) ==
    IF strlen(s.buf) < 0 THEN [s |-> s, fault |-> "uninitialized-read"]
    ELSE [s |-> [s EXCEPT !.free = UnsignedInt(Add64(@, Sub64(s.len, SizeT(strlen(s.buf))))),
                          !.len = SizeT(strlen(s.buf))],
          fault |-> "none"]

\* sdsclear
sdsclear(s) ==
    [s EXCEPT !.free = UnsignedInt(Add64(@, s.len)), !.len = SizeT(0), !.buf[1] = 0]

\* sdsMakeRoomFor, the allocation succeeding; newlen is the size it asks
\* zrealloc for, the header and the terminator not counted
sdsMakeRoomFor(s, addlen) ==
    LET len == s.len
        newlen == IF Less64(Add64(len, addlen), SizeT(SDS_MAX_PREALLOC))
                  THEN Shl64(Add64(len, addlen), 1)
                  ELSE Add64(Add64(len, addlen), SizeT(SDS_MAX_PREALLOC))
    IN IF ~Less64(s.free, addlen) THEN s
       ELSE [s EXCEPT !.free = UnsignedInt(Sub64(newlen, len))]

\* buf[len] = '\0', the bytes in front of it written before
Terminate(buf, len) ==
    IF len < Len(buf) THEN [buf EXCEPT ![len + 1] = 0] ELSE buf \o <<0>>

\* sdsIncrLen; a failed assert aborts the program
sdsIncrLen(s, incr) ==
    LET asserted == IF incr >= 0 THEN ~Less64(s.free, SizeT(incr))
                    ELSE ~Less64(s.len, SizeT(0 - incr))
        len == IF incr >= 0 THEN UnsignedInt(Add64(s.len, SizeT(incr)))
               ELSE UnsignedInt(Sub64(s.len, SizeT(0 - incr)))
        free == IF incr >= 0 THEN UnsignedInt(Sub64(s.free, SizeT(incr)))
                ELSE UnsignedInt(Add64(s.free, SizeT(0 - incr)))
    IN IF ~asserted THEN [s |-> s, fault |-> "assert"]
       ELSE IF Natural(len) > Len(s.buf) THEN [s |-> s, fault |-> "uninitialized-read"]
       ELSE [s |-> [len |-> len, free |-> free, buf |-> Terminate(s.buf, Natural(len))],
             fault |-> "none"]

\* memmove(buf, buf + start, newlen) when start and newlen are not 0, and
\* buf[newlen] = 0
RangeMove(buf, start, newlen) ==
    [i \in 1..Len(buf) |->
        IF i = newlen + 1 THEN 0
        ELSE IF i <= newlen /\ start # 0 THEN buf[i + start]
        ELSE buf[i]]

\* sdsrange
sdsrange(s, start, end) ==
    LET len == Natural(s.len)
        start1 == IF start >= 0 THEN start ELSE IF len + start < 0 THEN 0 ELSE len + start
        end1 == IF end >= 0 THEN end ELSE IF len + end < 0 THEN 0 ELSE len + end
        newlen1 == IF start1 > end1 THEN 0 ELSE (end1 - start1) + 1
        end2 == IF newlen1 # 0 /\ start1 < len /\ end1 >= len THEN len - 1 ELSE end1
        newlen == IF newlen1 = 0 \/ start1 >= len THEN 0
                  ELSE IF start1 > end2 THEN 0 ELSE (end2 - start1) + 1
        start2 == IF newlen1 = 0 THEN 0 ELSE start1
    IN IF len = 0 THEN s
       ELSE [len |-> SizeT(newlen),
             free |-> UnsignedInt(Add64(s.free, Sub64(s.len, SizeT(newlen)))),
             buf |-> RangeMove(s.buf, start2, newlen)]

---------------------------------------------------------------------------
(* The state machine: one action per call of the interface *)

\* the finite map m with key mapped to val, and with key removed
MapPut(m, key, val) == [k \in DOMAIN m \cup {key} |-> IF k = key THEN val ELSE m[k]]
MapDel(m, key) == [k \in DOMAIN m \ {key} |-> m[k]]

\* dictCreate / _dictInit, and the initial value of the resize flag
Init ==
    /\ d = [ht |-> <<_dictReset, _dictReset>>, rehashidx |-> -1, iterators |-> 0]
    /\ dict_can_resize = TRUE
    /\ amap = <<>>
    /\ op = [name |-> "dictCreate", ret |-> DICT_OK]
    /\ fault = "none"
    /\ iters = [i \in 1..NIters |-> NoIterator]
    /\ scan = NoScan
    /\ drain = NoDrain
    /\ sh = sdsnewlen(<<>>)

\* the call name returned with outcome r: the dictionary is as the call left
\* it and op records what it returned
Returned(name, r, ret) ==
    /\ d' = r.d
    /\ op' = [name |-> name, ret |-> ret]
    /\ fault' = r.fault

\* The caller that counts its calls until a rehash ends counts a call made
\* while that rehash is in progress.  A call after which ht[0] has another
\* size and a rehash is in progress has ended the rehash and begun the next:
\* the caller counts from there again, from the size of the new ht[0].
Drained(ee) ==
    IF ~(drain.on /\ dictIsRehashing(d)) THEN drain
    ELSE IF dictIsRehashing(ee) /\ HT(ee, 0).size # HT(d, 0).size
         THEN [on |-> TRUE, calls |-> 0, size |-> HT(ee, 0).size]
         ELSE [drain EXCEPT !.calls = @ + 1]

DictAdd(key, val) ==
    /\ fault = "none"
    /\ LET r == dictAdd(d, key, val)
       IN  Returned("dictAdd", r, r.ret) /\ drain' = Drained(r.d)
    /\ amap' = IF key \in DOMAIN amap THEN amap ELSE MapPut(amap, key, val)
    /\ UNCHANGED <<dict_can_resize, iters, scan, sh>>

DictReplace(key, val) ==
    /\ fault = "none"
    /\ LET r == dictReplace(d, key, val) IN Returned("dictReplace", r, r.ret)
    /\ amap' = MapPut(amap, key, val)
    /\ UNCHANGED <<dict_can_resize, iters, scan, drain, sh>>

DictDelete(key) ==
    /\ fault = "none"
    /\ LET r == dictDelete(d, key)
       IN  Returned("dictDelete", r, r.ret) /\ drain' = Drained(r.d)
    /\ amap' = MapDel(amap, key)
    /\ iters' = IF key \in DOMAIN amap THEN Freed(iters, key) ELSE iters
    /\ scan' = [scan EXCEPT !.stay = @ \ {key}]
    /\ UNCHANGED <<dict_can_resize, sh>>

\* ret is 1 when dictFind returned an entry and 0 when it returned NULL
DictFind(key) ==
    /\ fault = "none"
    /\ LET r == dictFind(d, key)
       IN  /\ Returned("dictFind", r, IF r.entry = NULLENTRY THEN 0 ELSE 1)
           /\ drain' = Drained(r.d)
    /\ UNCHANGED <<amap, dict_can_resize, iters, scan, sh>>

\* ret is the value returned, NOVAL for NULL
DictFetchValue(key) ==
    /\ fault = "none"
    /\ LET r == dictFetchValue(d, key) IN Returned("dictFetchValue", r, r.val)
    /\ UNCHANGED <<amap, dict_can_resize, iters, scan, drain, sh>>

DictRehash(n) ==
    /\ fault = "none"
    /\ LET r == dictRehash(d, n) IN Returned("dictRehash", r, r.ret)
    /\ drain' = IF drain.on THEN [drain EXCEPT !.calls = @ + 1] ELSE drain
    /\ UNCHANGED <<amap, dict_can_resize, iters, scan, sh>>

DictExpand(size) ==
    /\ fault = "none"
    /\ LET r == dictExpand(d, size)
       IN  /\ d' = r.d
           /\ op' = [name |-> "dictExpand", ret |-> r.ret]
    /\ UNCHANGED <<amap, dict_can_resize, fault, iters, scan, drain, sh>>

DictResize ==
    /\ fault = "none"
    /\ LET r == dictResize(d)
       IN  /\ d' = r.d
           /\ op' = [name |-> "dictResize", ret |-> r.ret]
    /\ UNCHANGED <<amap, dict_can_resize, fault, iters, scan, drain, sh>>

DictEnableResize ==
    /\ fault = "none"
    /\ dict_can_resize' = TRUE
    /\ op' = [name |-> "dictEnableResize", ret |-> DICT_OK]
    /\ UNCHANGED <<d, amap, fault, iters, scan, drain, sh>>

DictDisableResize ==
    /\ fault = "none"
    /\ dict_can_resize' = FALSE
    /\ op' = [name |-> "dictDisableResize", ret |-> DICT_OK]
    /\ UNCHANGED <<d, amap, fault, iters, scan, drain, sh>>

DictRehashMilliseconds(rounds) ==
    /\ fault = "none"
    /\ LET r == dictRehashMilliseconds(d, rounds)
       IN  Returned("dictRehashMilliseconds", r, r.ret)
    /\ UNCHANGED <<amap, dict_can_resize, iters, scan, drain, sh>>

\* the streams of n values of random()
StreamsOf(n) == [1..n -> 0..(RandomRange - 1)]

\* the streams of values of random() the callers' runs see
Streams == StreamsOf(RandLen)

\* a call that returns: ret is the key of the entry returned, 0 for NULL,
\* entry the entry and drawn the set of the h drawn
DictGetRandomKey(rnd) ==
    /\ fault = "none"
    /\ LET r == dictGetRandomKey(d, rnd)
       IN  /\ r.returns
           /\ d' = r.d
           /\ fault' = r.fault
           /\ op' = [name |-> "dictGetRandomKey",
                     ret |-> IF r.entry = NULLENTRY \/ r.fault # "none" THEN 0
                             ELSE EntryAt(r.d, r.entry).key,
                     entry |-> r.entry, drawn |-> r.drawn]
    /\ UNCHANGED <<amap, dict_can_resize, iters, scan, drain, sh>>

\* the caller's array starts with count empty slots; op records what the
\* call returned and left in the array, count, and dictSize(d) at the call
DictGetSomeKeys(count, rnd) ==
    /\ fault = "none"
    /\ LET r == dictGetSomeKeys(d, count, rnd)
       IN  /\ d' = r.d
           /\ fault' = r.fault
           /\ op' = [name |-> "dictGetSomeKeys", ret |-> r.ret, des |-> r.des,
                     steps |-> r.steps, jumps |-> r.jumps, count |-> count,
                     size |-> dictSize(d)]
    /\ UNCHANGED <<amap, dict_can_resize, iters, scan, drain, sh>>

\* ret is the number of entries freed, leaked the keys of the entries left
\* allocated, and rehashing and iterators are d's before the call
DictEmpty ==
    /\ fault = "none"
    /\ LET r == dictEmpty(d)
       IN  /\ d' = r.d
           /\ op' = [name |-> "dictEmpty", ret |-> Cardinality(r.freed),
                     leaked |-> r.leaked, rehashing |-> dictIsRehashing(d),
                     iterators |-> d.iterators]
           /\ iters' = FreedAll(iters, r.freed)
           /\ scan' = [scan EXCEPT !.stay = @ \ r.freed]
    /\ amap' = <<>>
    /\ UNCHANGED <<dict_can_resize, fault, drain, sh>>

\* the iterator calls of the caller; ret of dictNext is the key of the
\* entry returned, 0 for NULL
DictGetIterator(i) ==
    /\ fault = "none"
    /\ ~iters[i].open
    /\ iters' = [iters EXCEPT ![i] = dictGetIterator]
    /\ op' = [name |-> "dictGetIterator", ret |-> i]
    /\ UNCHANGED <<d, dict_can_resize, amap, fault, scan, drain, sh>>

DictGetSafeIterator(i) ==
    /\ fault = "none"
    /\ ~iters[i].open
    /\ iters' = [iters EXCEPT ![i] = dictGetSafeIterator]
    /\ op' = [name |-> "dictGetSafeIterator", ret |-> i]
    /\ UNCHANGED <<d, dict_can_resize, amap, fault, scan, drain, sh>>

DictNext(i) ==
    /\ fault = "none"
    /\ iters[i].open
    /\ LET r == dictNext(d, iters[i])
       IN  /\ Returned("dictNext", r, r.entry.key)
           /\ iters' = [iters EXCEPT ![i] = r.it]
    /\ UNCHANGED <<dict_can_resize, amap, scan, drain, sh>>

DictReleaseIterator(i) ==
    /\ fault = "none"
    /\ iters[i].open
    /\ LET r == dictReleaseIterator(d, iters[i])
       IN  /\ d' = r.d
           /\ iters' = [iters EXCEPT ![i] = r.it]
    /\ op' = [name |-> "dictReleaseIterator", ret |-> i]
    /\ UNCHANGED <<dict_can_resize, amap, fault, scan, drain, sh>>

\* One call of dictScan by the caller that scans: with cursor 0 when it has
\* no scan in progress, else with the cursor the call before returned.  seen
\* collects what fn was given, stay is the keys that were in the dictionary
\* at the first call and have not been deleted since, and a scan ends with
\* the call that returns 0.  A caller that logs the buckets (log) also has
\* reads, the number of buckets read, and buckets, the buckets read.
ScanStep(s, r) ==
    /\ scan' = [on |-> r.v # 0, v |-> r.v,
                seen |-> s.seen \cup Range(r.keys),
                stay |-> s.stay,
                calls |-> s.calls + 1,
                log |-> s.log,
                reads |-> IF s.log THEN s.reads + Len(r.buckets) ELSE 0,
                buckets |-> IF s.log THEN s.buckets \cup Range(r.buckets) ELSE {}]
    /\ op' = [name |-> "dictScan", ret |-> r.v]

DictScan(log) ==
    /\ fault = "none"
    /\ IF scan.on THEN ScanStep(scan, dictScan(d, scan.v))
       ELSE ScanStep([NoScan EXCEPT !.stay = LiveKeys(d), !.log = log],
                     dictScan(d, 0))
    /\ UNCHANGED <<d, dict_can_resize, amap, fault, iters, drain, sh>>

\* the value a caller that does not choose the values stores with a key
FillVal(key) == 1 + (key % NVals)

\* Any caller: every call, in any order, on the keys 1..NKeys
Next ==
    \/ \E key \in Keys, val \in Vals : DictAdd(key, val)
    \/ \E key \in Keys, val \in Vals : DictReplace(key, val)
    \/ \E key \in Keys : DictDelete(key)
    \/ \E key \in Keys : DictFind(key)
    \/ \E key \in Keys : DictFetchValue(key)
    \/ \E n \in 0..MaxRehashN : DictRehash(n)
    \/ \E size \in 0..MaxExpand : DictExpand(size)
    \/ DictResize
    \/ DictEnableResize
    \/ DictDisableResize

Spec == Init /\ [][Next]_vars

\* The structural caller: every call that changes the shape of the tables,
\* in any order, on the keys 1..NKeys+1, each key always with the same value
WideKeys == 1..(NKeys + 1)

NextWide ==
    \/ \E key \in WideKeys : DictAdd(key, FillVal(key))
    \/ \E key \in WideKeys : DictDelete(key)
    \/ \E key \in WideKeys : DictFind(key)
    \/ \E n \in 0..MaxRehashN : DictRehash(n)
    \/ \E size \in 0..MaxExpand : DictExpand(size)
    \/ DictResize
    \/ DictEnableResize
    \/ DictDisableResize

SpecWide == Init /\ [][NextWide]_vars

\* The filling caller: it may size the table for 8 keys before the first
\* insertion, then inserts the keys 1, 2, ..., FillKeys in this order, and in
\* between tries a key again that it has inserted (the first or the last
\* one), looks one up, runs a rehash step, switches the resize flag or, while
\* it holds at most 4 keys, trims the table with dictResize.

FillAdd ==
    /\ dictSize(d) < FillKeys
    /\ DictAdd(dictSize(d) + 1, FillVal(dictSize(d) + 1))

FillAddAgain ==
    /\ dictSize(d) > 0
    /\ \E key \in {1, dictSize(d)} : DictAdd(key, FillVal(key))

FillFind ==
    /\ dictSize(d) > 0
    /\ DictFind(dictSize(d))

FillPresize ==
    /\ HT(d, 0).size = 0
    /\ DictExpand(2 * DICT_HT_INITIAL_SIZE)

FillTrim ==
    /\ dictSize(d) <= DICT_HT_INITIAL_SIZE
    /\ DictResize

NextFill ==
    \/ FillPresize
    \/ FillTrim
    \/ FillAdd
    \/ FillAddAgain
    \/ FillFind
    \/ DictRehash(1)
    \/ DictEnableResize
    \/ DictDisableResize

SpecFill == Init /\ [][NextFill]_vars

\* The resizing caller: it creates the dictionary and asks for capacities,
\* over the whole range of a long up to LONG_MAX + 1, running the rehash
\* between the requests.
NextSizes ==
    \/ \E size \in 0..(LONG_MAX + 1) : DictExpand(size)
    \/ \E n \in 0..MaxRehashN : DictRehash(n)
    \/ DictResize

SpecSizes == Init /\ [][NextSizes]_vars

\* The inserting caller: default settings and dictAdd only.  It inserts the
\* keys 1..InsertKeys, each time one of the two smallest keys that it has not
\* inserted yet.
Missing == (1..InsertKeys) \ DOMAIN amap

InsertNew ==
    \E key \in Missing :
        /\ Cardinality({k \in Missing : k < key}) <= 1
        /\ DictAdd(key, FillVal(key))

SpecInsert == Init /\ [][InsertNew]_vars

\* The draining caller.  It builds a dictionary on keys whose hashes fill the
\* four buckets of the smallest table, with tables of 4 to 32 buckets; when a
\* rehash is in progress it starts to drain it: it calls dictRehash(d, n),
\* n >= 1, and nothing else until the rehash is over, counting its calls from
\* the size of ht[0] at its start.  Then it looks keys up and scans, and
\* goes back to building.
DrainKeys == {1, 3, 6, 9}
DrainSizes == {DICT_HT_INITIAL_SIZE, 2 * DICT_HT_INITIAL_SIZE, 8 * DICT_HT_INITIAL_SIZE}

StartDrain ==
    /\ fault = "none"
    /\ ~drain.on
    /\ dictIsRehashing(d)
    /\ drain' = [on |-> TRUE, calls |-> 0, size |-> HT(d, 0).size]
    /\ UNCHANGED <<d, dict_can_resize, amap, op, fault, iters, scan, sh>>

DrainRehash(n) ==
    /\ drain.on
    /\ dictIsRehashing(d)
    /\ DictRehash(n)

DrainFind(key) ==
    /\ drain.on
    /\ ~dictIsRehashing(d)
    /\ DictFind(key)

DrainScan ==
    /\ drain.on
    /\ ~dictIsRehashing(d)
    /\ DictScan(TRUE)

StopDrain ==
    /\ fault = "none"
    /\ drain.on
    /\ ~dictIsRehashing(d)
    /\ drain' = NoDrain
    /\ scan' = NoScan
    /\ UNCHANGED <<d, dict_can_resize, amap, op, fault, iters, sh>>

NextDrain ==
    \/ ~drain.on /\ \E key \in DrainKeys : DictAdd(key, FillVal(key))
    \/ ~drain.on /\ \E key \in DrainKeys : DictDelete(key)
    \/ ~drain.on /\ \E size \in DrainSizes : DictExpand(size)
    \/ ~drain.on /\ DictResize
    \/ StartDrain
    \/ \E n \in 1..MaxRehashN : DrainRehash(n)
    \/ \E key \in DrainKeys : DrainFind(key)
    \/ DrainScan
    \/ StopDrain

SpecDrain == Init /\ [][NextDrain]_vars

\* the draining caller keeps calling dictRehash while the rehash is in
\* progress
SpecDrainFair ==
    SpecDrain /\ WF_vars(\E n \in 1..MaxRehashN : DrainRehash(n))

\* the caller of dictScan drops what it collected in a scan that has ended
ForgetScan ==
    /\ fault = "none"
    /\ ~scan.on
    /\ scan.calls > 0
    /\ scan' = NoScan
    /\ UNCHANGED <<d, dict_can_resize, amap, op, fault, iters, drain, sh>>

\* The caller that scans a dictionary at rest.  It builds a dictionary as the
\* draining caller does, starts a scan when the dictionary holds a key and no
\* rehash is in progress, calls nothing but dictScan until the scan ends, and
\* drops what it collected before it goes back to building.
StillScan ==
    /\ scan.on \/ (scan = NoScan /\ dictSize(d) > 0 /\ ~dictIsRehashing(d))
    /\ DictScan(TRUE)

NextStill ==
    \/ scan = NoScan /\ \E key \in DrainKeys : DictAdd(key, FillVal(key))
    \/ scan = NoScan /\ \E key \in DrainKeys : DictDelete(key)
    \/ scan = NoScan /\ \E size \in DrainSizes : DictExpand(size)
    \/ scan = NoScan /\ DictResize
    \/ scan = NoScan /\ \E n \in 1..MaxRehashN : DictRehash(n)
    \/ StillScan
    \/ ForgetScan

SpecStill == Init /\ [][NextStill]_vars

\* The caller that scans a growing dictionary.  It inserts the keys
\* 1, 2, ..., GrowKeys in this order with default settings, so that the table
\* grows from 4 to 32 buckets with the rehash steps the insertions perform,
\* and calls dictScan at any point in between; no other call is made.
GrowAdd ==
    /\ scan.on \/ scan = NoScan
    /\ dictSize(d) < GrowKeys
    /\ DictAdd(dictSize(d) + 1, FillVal(dictSize(d) + 1))

GrowScan ==
    /\ scan.on \/ scan = NoScan
    /\ DictScan(FALSE)

NextGrow ==
    \/ GrowAdd
    \/ GrowScan
    \/ ForgetScan

SpecGrow == Init /\ [][NextGrow]_vars

\* The caller that scans a dictionary while it changes it.  Between the
\* calls of dictScan it adds and deletes keys, runs rehash steps, asks for
\* larger tables with dictExpand and for the smallest table that holds the
\* keys with dictResize.  It gives a scan up after MaxScanCalls calls.
ChurnKeys == {1, 3}
ChurnSizes == {DICT_HT_INITIAL_SIZE, 4 * DICT_HT_INITIAL_SIZE}

ChurnScan ==
    /\ scan.on \/ scan = NoScan
    /\ scan.calls < MaxScanCalls
    /\ DictScan(FALSE)

GiveUpScan ==
    /\ fault = "none"
    /\ scan.on
    /\ scan.calls = MaxScanCalls
    /\ scan' = NoScan
    /\ UNCHANGED <<d, dict_can_resize, amap, op, fault, iters, drain, sh>>

NextChurn ==
    \/ \E key \in ChurnKeys : DictAdd(key, FillVal(key))
    \/ \E key \in ChurnKeys : DictDelete(key)
    \/ \E size \in ChurnSizes : DictExpand(size)
    \/ DictResize
    \/ DictRehash(1)
    \/ ChurnScan
    \/ GiveUpScan
    \/ ForgetScan

SpecChurn == Init /\ [][NextChurn]_vars

\* The callers that iterate.  They have the iterators 1..NIters, and between
\* the calls of dictNext they make other calls on two keys that share a
\* bucket in a table of 4, with tables of 4 and 8 buckets and rehashes of up
\* to MaxRounds rounds of 100 buckets.
MaxRounds == 2
IterKeys == {1, 2}
IterSizes == {DICT_HT_INITIAL_SIZE, 2 * DICT_HT_INITIAL_SIZE}

\* a caller calls dictNext until the iterator has left the last bucket of its
\* table
IterNext(i) ==
    /\ iters[i].index < HT(d, iters[i].table).size
    /\ DictNext(i)

\* the caller with safe iterators makes every call
NextSafe ==
    \/ \E key \in IterKeys : DictAdd(key, FillVal(key))
    \/ \E key \in IterKeys : DictReplace(key, FillVal(key))
    \/ \E key \in IterKeys : DictDelete(key)
    \/ \E key \in IterKeys : DictFind(key)
    \/ \E rnd \in Streams : DictGetRandomKey(rnd)
    \/ DictRehash(1)
    \/ \E rounds \in 1..MaxRounds : DictRehashMilliseconds(rounds)
    \/ \E size \in IterSizes : DictExpand(size)
    \/ DictResize
    \/ \E i \in 1..NIters : DictGetSafeIterator(i)
    \/ \E i \in 1..NIters : IterNext(i)
    \/ \E i \in 1..NIters : DictReleaseIterator(i)

SpecSafe == Init /\ [][NextSafe]_vars

\* the caller with iterators that are not safe
NextUnsafe ==
    \/ \E key \in IterKeys : DictAdd(key, FillVal(key))
    \/ \E key \in IterKeys : DictDelete(key)
    \/ \E key \in IterKeys : DictFind(key)
    \/ \E key \in IterKeys : DictFetchValue(key)
    \/ \E size \in IterSizes : DictExpand(size)
    \/ \E i \in 1..NIters : DictGetIterator(i)
    \/ \E i \in 1..NIters : IterNext(i)
    \/ \E i \in 1..NIters : DictReleaseIterator(i)

SpecUnsafe == Init /\ [][NextUnsafe]_vars

\* The caller that only looks keys up while it iterates.  It builds the
\* dictionary while it has no iterator, and from dictGetIterator to
\* dictReleaseIterator it calls dictNext, dictFind and dictFetchValue only.
Iterating == \E i \in 1..NIters : iters[i].open

NextLookup ==
    \/ ~Iterating /\ \E key \in IterKeys : DictAdd(key, FillVal(key))
    \/ ~Iterating /\ \E key \in IterKeys : DictDelete(key)
    \/ ~Iterating /\ \E size \in IterSizes : DictExpand(size)
    \/ \E key \in IterKeys : DictFind(key)
    \/ \E key \in IterKeys : DictFetchValue(key)
    \/ \E i \in 1..NIters : DictGetIterator(i)
    \/ \E i \in 1..NIters : IterNext(i)
    \/ \E i \in 1..NIters : DictReleaseIterator(i)

SpecLookup == Init /\ [][NextLookup]_vars

\* The caller that fills the dictionary while it iterates.  It holds the keys
\* 1..n, n <= PinnedKeys: it inserts the next key, deletes the last one, replaces and finds
\* the first or the last one and asks for a random key, with a safe iterator
\* open or not.
PinnedAdd ==
    /\ dictSize(d) < PinnedKeys
    /\ DictAdd(dictSize(d) + 1, FillVal(dictSize(d) + 1))

PinnedDelete ==
    /\ dictSize(d) > 0
    /\ DictDelete(dictSize(d))

PinnedReplace ==
    /\ dictSize(d) > 0
    /\ \E key \in {1, dictSize(d)} : DictReplace(key, FillVal(key))

NextPinned ==
    \/ PinnedAdd
    \/ FillFind
    \/ PinnedDelete
    \/ PinnedReplace
    \/ \E rnd \in Streams : DictGetRandomKey(rnd)
    \/ \E i \in 1..NIters : DictGetSafeIterator(i)
    \/ \E i \in 1..NIters : IterNext(i)
    \/ \E i \in 1..NIters : DictReleaseIterator(i)

SpecPinned == Init /\ [][NextPinned]_vars

---------------------------------------------------------------------------
(* A caller that samples: it sizes the table, adds and deletes a few keys,  *)
(* rehashes step by step and asks dictGetSomeKeys for up to MaxCount keys.  *)
(* In the middle of a rehash it may open one safe iterator and advance it   *)
(* once; it then keeps the iterator open and only rehashes and samples.     *)

SampleKeys == {1, 3, 4}
SampleSizes == {4, 8}

\* ht[0] is being rehashed into a smaller ht[1]
Shrinking(dd) == dictIsRehashing(dd) /\ HT(dd, 1).size < HT(dd, 0).size

\* the caller opens its iterator in the middle of a rehash
SampleIterator ==
    /\ dictIsRehashing(d)
    /\ DictGetSafeIterator(1)

\* the first call of dictNext on the caller's iterator
SampleNext ==
    /\ iters[1].index = -1 /\ iters[1].table = 0
    /\ DictNext(1)

\* the caller changes the dictionary before it opens its iterator
SampleExpand(size) == ~iters[1].open /\ DictExpand(size)
SampleAdd(key) == ~iters[1].open /\ DictAdd(key, FillVal(key))
SampleDelete(key) == ~iters[1].open /\ DictDelete(key)

\* the caller makes another call between two samplings (a sampling leaves the
\* dictionary as the same number of calls of dictRehash(d, 1) do)
SampleSome(count, rnd) == op.name # "dictGetSomeKeys" /\ DictGetSomeKeys(count, rnd)

NextSample ==
    \/ \E size \in SampleSizes : SampleExpand(size)
    \/ \E key \in SampleKeys : SampleAdd(key)
    \/ \E key \in SampleKeys : SampleDelete(key)
    \/ DictRehash(1)
    \/ \E count \in 0..MaxCount, rnd \in Streams : SampleSome(count, rnd)
    \/ SampleIterator
    \/ SampleNext

SpecSample == Init /\ [][NextSample]_vars

---------------------------------------------------------------------------
(* A caller that draws random keys from the dictionary the sampling caller  *)
(* builds; a call sees up to RandLen + 1 values of random() before the      *)
(* stream repeats                                                           *)

\* the caller makes another call between two draws (a draw leaves the
\* dictionary as the rehash step of any other call does)
RandomDraw(rnd) == op.name # "dictGetRandomKey" /\ DictGetRandomKey(rnd)

NextRandom ==
    \/ \E size \in SampleSizes : SampleExpand(size)
    \/ \E key \in SampleKeys : SampleAdd(key)
    \/ \E key \in SampleKeys : SampleDelete(key)
    \/ DictRehash(1)
    \/ \E rnd \in StreamsOf(RandLen + 1) : RandomDraw(rnd)
    \/ SampleIterator
    \/ SampleNext

SpecRandom == Init /\ [][NextRandom]_vars

---------------------------------------------------------------------------
(* The caller with a safe iterator that also empties the dictionary *)

NextEmpty ==
    \/ \E key \in IterKeys : DictAdd(key, FillVal(key))
    \/ \E key \in IterKeys : DictDelete(key)
    \/ DictRehash(1)
    \/ \E size \in IterSizes : DictExpand(size)
    \/ DictGetSafeIterator(1)
    \/ IterNext(1)
    \/ DictReleaseIterator(1)
    \/ DictEmpty

SpecEmpty == Init /\ [][NextEmpty]_vars

---------------------------------------------------------------------------
(* The caller of sds.c: it makes one string of at most MaxStrLen bytes, asks *)
(* for room, writes behind the string and takes the bytes in with           *)
(* sdsIncrLen, writes a byte of the string, and cuts the string             *)

\* the byte counts the caller asks sdsMakeRoomFor for: small ones, the ones
\* around SDS_MAX_PREALLOC, and 2^32 - SDS_MAX_PREALLOC less 2 and less 0
RoomLens ==
    {SizeT(0), SizeT(1), SizeT(SDS_MAX_PREALLOC - 1), SizeT(SDS_MAX_PREALLOC),
     Sub64(Shl64(SizeT(1), 32), SizeT(SDS_MAX_PREALLOC + 2)),
     Sub64(Shl64(SizeT(1), 32), SizeT(SDS_MAX_PREALLOC))}

\* the caller writes data at buf[at...]
Write(buf, at, data) ==
    [i \in 1..(IF at + Len(data) > Len(buf) THEN at + Len(data) ELSE Len(buf)) |->
        IF i > at /\ i <= at + Len(data) THEN data[i - at] ELSE buf[i]]

SdsUnchanged == UNCHANGED <<d, dict_can_resize, amap, iters, scan, drain>>

SdsNew(init) ==
    /\ fault = "none"
    /\ op.name = "dictCreate"
    /\ sh' = sdsnewlen(init)
    /\ op' = [name |-> "sdsnewlen", initlen |-> Len(init)]
    /\ UNCHANGED fault
    /\ SdsUnchanged

SdsMakeRoomFor(addlen) ==
    /\ fault = "none"
    /\ sh' = sdsMakeRoomFor(sh, addlen)
    /\ op' = [name |-> "sdsMakeRoomFor", addlen |-> addlen]
    /\ UNCHANGED fault
    /\ SdsUnchanged

SdsClear ==
    /\ fault = "none"
    /\ sh' = sdsclear(sh)
    /\ op' = [name |-> "sdsclear"]
    /\ UNCHANGED fault
    /\ SdsUnchanged

SdsRange(start, end) ==
    /\ fault = "none"
    /\ sh' = sdsrange(sh, start, end)
    /\ op' = [name |-> "sdsrange", start |-> start, end |-> end]
    /\ UNCHANGED fault
    /\ SdsUnchanged

\* the caller writes the incr bytes data behind the string when there is room
\* for them, and calls sdsIncrLen(s, incr)
DataLen(incr) == IF incr > 0 /\ ~Less64(sh.free, SizeT(incr)) THEN incr ELSE 0
SdsIncrLen(incr, data) ==
    /\ fault = "none"
    /\ Natural(sh.len) + incr <= MaxStrLen
    /\ LET r == sdsIncrLen([sh EXCEPT !.buf = Write(@, Natural(sh.len), data)], incr)
       IN /\ sh' = r.s
          /\ fault' = r.fault
    /\ op' = [name |-> "sdsIncrLen", incr |-> incr]
    /\ SdsUnchanged

\* the caller writes the byte b at s[i], a byte of the string
SdsPoke(i, b) ==
    /\ fault = "none"
    /\ i < Natural(sh.len)
    /\ sh' = [sh EXCEPT !.buf[i + 1] = b]
    /\ op' = [name |-> "write", i |-> i]
    /\ UNCHANGED fault
    /\ SdsUnchanged

SdsUpdateLen ==
    /\ fault = "none"
    /\ LET r == sdsupdatelen(sh)
       IN /\ sh' = r.s
          /\ fault' = r.fault
    /\ op' = [name |-> "sdsupdatelen"]
    /\ SdsUnchanged

NextSds ==
    \/ \E init \in StringsUpTo(MaxStrLen) : SdsNew(init)
    \/ \E addlen \in RoomLens : SdsMakeRoomFor(addlen)
    \/ SdsClear
    \/ \E start, end \in (0 - MaxStrLen)..MaxStrLen : SdsRange(start, end)
    \/ \E incr \in (0 - MaxStrLen)..MaxStrLen : \E data \in [1..DataLen(incr) -> Bytes] : SdsIncrLen(incr, data)
    \/ \E i \in 0..(MaxStrLen - 1) : \E b \in Bytes : SdsPoke(i, b)
    \/ SdsUpdateLen

SpecSds == Init /\ [][NextSds]_vars

---------------------------------------------------------------------------
(* The caller that walks: it builds the dictionary while it has no          *)
(* iterator, opens a safe or an unsafe iterator, and calls only dictNext,   *)
(* until the end and twice more, before it releases the iterator            *)

WalkRehash == ~iters[1].open /\ DictRehash(1)
WalkNext ==
    /\ iters[1].open
    /\ iters[1].index <= HT(d, iters[1].table).size
    /\ DictNext(1)

NextWalk ==
    \/ \E size \in SampleSizes : SampleExpand(size)
    \/ \E key \in SampleKeys : SampleAdd(key)
    \/ \E key \in SampleKeys : SampleDelete(key)
    \/ WalkRehash
    \/ DictGetIterator(1)
    \/ DictGetSafeIterator(1)
    \/ WalkNext
    \/ DictReleaseIterator(1)

SpecWalk == Init /\ [][NextWalk]_vars

---------------------------------------------------------------------------
(* The caller with a sparse table: a table of 16 with up to three keys, far *)
(* apart, that it rehashes into a table of 4 or of 16, n buckets at a time   *)

SparseKeys == {1, 11, 23}
SparseSizes == {DICT_HT_INITIAL_SIZE, 4 * DICT_HT_INITIAL_SIZE}

NextSparse ==
    \/ \E key \in SparseKeys : DictAdd(key, FillVal(key))
    \/ \E key \in SparseKeys : DictDelete(key)
    \/ \E size \in SparseSizes : DictExpand(size)
    \/ DictResize
    \/ \E n \in 0..MaxRehashN : DictRehash(n)

SpecSparse == Init /\ [][NextSparse]_vars

---------------------------------------------------------------------------
(* The caller that reads: on the dictionary the sampling caller builds it   *)
(* draws random keys, samples and scans, a scan from its first call to its   *)
(* last with no other call in between                                        *)

NextRead ==
    \/ scan = NoScan /\ \E size \in SampleSizes : SampleExpand(size)
    \/ scan = NoScan /\ \E key \in SampleKeys : SampleAdd(key)
    \/ scan = NoScan /\ \E key \in SampleKeys : SampleDelete(key)
    \/ scan = NoScan /\ DictRehash(1)
    \/ scan = NoScan /\ \E count \in {1, MaxCount}, rnd \in Streams : SampleSome(count, rnd)
    \/ scan = NoScan /\ \E rnd \in Streams : RandomDraw(rnd)
    \/ scan = NoScan /\ SampleIterator
    \/ scan = NoScan /\ SampleNext
    \/ DictScan(FALSE)
    \/ ForgetScan

SpecRead == Init /\ [][NextRead]_vars

---------------------------------------------------------------------------
(* The caller that steps: it builds a dictionary as the draining caller     *)
(* does, with tables of 4 to 16 buckets, and, when a rehash is in progress, *)
(* calls nothing but dictAdd,                                                *)
(* dictFind and dictDelete, on any keys, until no rehash is in progress     *)

StepKeys == DrainKeys \cup {4}
StepSizes == {DICT_HT_INITIAL_SIZE, 4 * DICT_HT_INITIAL_SIZE}

StepCall ==
    /\ drain.on
    /\ dictIsRehashing(d)
    /\ \/ \E key \in StepKeys : DictAdd(key, FillVal(key))
       \/ \E key \in StepKeys : DictFind(key)
       \/ \E key \in StepKeys : DictDelete(key)

NextStep ==
    \/ ~drain.on /\ \E key \in StepKeys : DictAdd(key, FillVal(key))
    \/ ~drain.on /\ \E key \in StepKeys : DictDelete(key)
    \/ ~drain.on /\ \E size \in StepSizes : DictExpand(size)
    \/ ~drain.on /\ DictResize
    \/ StartDrain
    \/ StepCall
    \/ StopDrain

SpecStep == Init /\ [][NextStep]_vars

---------------------------------------------------------------------------
(* The caller that inserts: dictAdd and dictReplace on five keys, so that a *)
(* table of four buckets fills up, with deletions and lookups, with         *)
(* explicit resizes and rehash steps and with the resize flag on and off    *)

InsertionKeys == StepKeys

NextInsertion ==
    \/ \E key \in InsertionKeys : DictAdd(key, FillVal(key))
    \/ \E key \in InsertionKeys : DictReplace(key, FillVal(key))
    \/ \E key \in InsertionKeys : DictDelete(key)
    \/ \E key \in InsertionKeys : DictFind(key)
    \/ \E size \in StepSizes : DictExpand(size)
    \/ DictResize
    \/ DictRehash(1)
    \/ DictEnableResize
    \/ DictDisableResize

SpecInsertion == Init /\ [][NextInsertion]_vars

---------------------------------------------------------------------------
(* The caller with the default settings: the resize flag stays on, it opens *)
(* no iterator and calls neither dictExpand nor dictResize.  It inserts, by *)
(* dictAdd or dictReplace, one of the two smallest keys of PlainKeys that   *)
(* are not in the dictionary, replaces, looks up and deletes                *)

PlainKeys == 1..10

Absent == {key \in PlainKeys \ DOMAIN amap :
              Cardinality({k \in PlainKeys \ DOMAIN amap : k < key}) <= 1}

Newest == {key \in DOMAIN amap :
              Cardinality({k \in DOMAIN amap : k > key}) <= 1}

NextPlain ==
    \/ \E key \in Absent : DictAdd(key, FillVal(key))
    \/ \E key \in Newest : DictAdd(key, FillVal(key))
    \/ \E key \in Absent \cup Newest : DictReplace(key, FillVal(key))
    \/ \E key \in Absent \cup Newest : DictFind(key)
    \/ \E key \in Absent \cup Newest : DictDelete(key)

SpecPlain == Init /\ [][NextPlain]_vars

---------------------------------------------------------------------------
(* Properties *)

\* no call of the interface runs into undefined behaviour
NoFault == fault = "none"

\* C1: after any sequence of dictAdd, dictReplace and dictDelete, interleaved
\* with dictFind, dictFetchValue, dictRehash, dictExpand and dictResize,
\* dictSize(d) = ht[0].used + ht[1].used is the number of distinct keys
\* inserted and not deleted since (the domain of the callers' map), the number
\* of distinct keys linked, and the number of entries linked in the chains of
\* the two tables.
SizeInvariant ==
    /\ dictSize(d) = HT(d, 0).used + HT(d, 1).used
    /\ dictSize(d) = Cardinality(DOMAIN amap)
    /\ dictSize(d) = Cardinality(LiveKeys(d))
    /\ dictSize(d) = Cardinality(Pointers(d))

\* a delete succeeded while the entries were split over the two tables, and
\* entries remain in both
SizeInvariantWitness ==
    /\ op = [name |-> "dictDelete", ret |-> DICT_OK]
    /\ SplitOverTables(d)
    /\ dictSize(d) = 2

\* C2: in every reachable state, for every key there is at most one entry
\* whose key compares equal to it in the chains of ht[0] and ht[1] together:
\* two pointers to entries with equal keys are the same pointer.  The filling
\* caller tries again keys it has inserted, while a rehash is in progress and
\* when the attempt itself starts the expansion.
NoDuplicateKeys ==
    \A e1, e2 \in Pointers(d) :
        dictCompareKeys(EntryAt(d, e1).key, EntryAt(d, e2).key) => e1 = e2

\* a dictAdd started the expansion of a full table and linked its key, the
\* first entry of ht[1], while every older entry is still in ht[0]
NoDuplicateKeysWitness ==
    /\ op = [name |-> "dictAdd", ret |-> DICT_OK]
    /\ dictIsRehashing(d)
    /\ d.rehashidx = 0
    /\ HT(d, 1).used = 1
    /\ HT(d, 0).used >= HT(d, 0).size

\* C3: the dictionary refines the finite map amap that dictAdd, dictReplace
\* and dictDelete build: in every reachable state, whatever rehash steps,
\* expansions and resizes came in between, dictFind(k) returns an entry
\* exactly when k is in the map, that entry holds k, and dictFetchValue(k)
\* returns the value stored last for k, NULL when k is not in the map.
RefinesMap ==
    \A k \in Keys :
        /\ dictFind(d, k).entry # NULLENTRY <=> k \in DOMAIN amap
        /\ dictFind(d, k).entry # NULLENTRY
               => EntryAt(dictFind(d, k).d, dictFind(d, k).entry).key = k
        /\ dictFetchValue(d, k).val = IF k \in DOMAIN amap THEN amap[k] ELSE NOVAL

\* dictFetchValue returned the value 2 of the only key that has it, whose
\* entry sits in ht[1] while other entries are still in ht[0]
RefinesMapWitness ==
    /\ op = [name |-> "dictFetchValue", ret |-> 2]
    /\ SplitOverTables(d)
    /\ \E k \in DOMAIN amap :
           /\ amap[k] = 2
           /\ \A j \in DOMAIN amap : amap[j] = 2 => j = k
           /\ Lookup(d, k).t = 1

\* C4: a call dictAdd(k, v) returns DICT_ERR when k is present, and then the
\* keys, the value stored with every key and dictSize are as before; when k
\* is absent it returns DICT_OK, k maps to v, every other key keeps its value
\* and dictSize has grown by exactly one.
AddContract ==
    [][\A k \in Keys, v \in Vals :
           op'.name = "dictAdd" /\ DictAdd(k, v) =>
               IF k \in LiveKeys(d)
               THEN /\ op'.ret = DICT_ERR
                    /\ LiveKeys(d') = LiveKeys(d)
                    /\ Entries(d') = Entries(d)
                    /\ dictSize(d') = dictSize(d)
               ELSE /\ op'.ret = DICT_OK
                    /\ Entries(d') = Entries(d) \cup {[key |-> k, val |-> v]}
                    /\ dictSize(d') = dictSize(d) + 1]_vars

\* dictAdd was refused for a key that is present, in a dictionary of three
\* entries split over the two tables
AddContractWitness ==
    /\ op = [name |-> "dictAdd", ret |-> DICT_ERR]
    /\ SplitOverTables(d)
    /\ dictSize(d) = 3

\* C5: a call dictReplace(k, v) returns 1 exactly when k was absent and 0
\* exactly when k was present; either way k maps to v afterwards and every
\* other key keeps its value.  When k was present dictSize is unchanged and
\* the value destructor is given the old value of k and nothing else; when k
\* was absent nothing is destroyed and dictSize grows by one.
ReplaceContract ==
    [][\A k \in Keys, v \in Vals :
           op'.name = "dictReplace" /\ DictReplace(k, v) =>
               /\ op'.ret = (IF k \in LiveKeys(d) THEN 0 ELSE 1)
               /\ Entries(d') = {e \in Entries(d) : e.key # k}
                                    \cup {[key |-> k, val |-> v]}
               /\ IF k \in LiveKeys(d)
                  THEN /\ dictSize(d') = dictSize(d)
                       /\ dictReplace(d, k, v).freed = <<ValueOf(d, k)>>
                  ELSE /\ dictSize(d') = dictSize(d) + 1
                       /\ dictReplace(d, k, v).freed = <<>>]_vars

\* dictReplace replaced the value of a key in a dictionary of three entries
\* split over the two tables, one of them with the value 2
ReplaceContractWitness ==
    /\ op = [name |-> "dictReplace", ret |-> 0]
    /\ SplitOverTables(d)
    /\ dictSize(d) = 3
    /\ Cardinality({e \in Entries(d) : e.val = 2}) = 1

\* C6: a call dictDelete(k) returns DICT_OK exactly when k is present: the
\* entry of k is gone, every other entry stays, and of the two used counters
\* the one of the table that held the entry once the call's rehash step was
\* done is one less, the other as it was, each counting the entries linked in
\* its table.  It returns DICT_ERR when k is absent, also when no table was
\* ever allocated, and then the keys, the values and dictSize are unchanged.
DeleteContract ==
    [][\A k \in WideKeys :
           op'.name = "dictDelete" /\ DictDelete(k) =>
               IF k \in LiveKeys(d)
               THEN /\ op'.ret = DICT_OK
                    /\ Entries(d') = {e \in Entries(d) : e.key # k}
                    /\ dictSize(d') = dictSize(d) - 1
                    /\ LET s == StepIfRehashing(d).d
                           t == HolderOf(s, k)
                       IN  /\ HT(d', t).used = HT(s, t).used - 1
                           /\ HT(d', 1 - t).used = HT(s, 1 - t).used
                    /\ \A t \in 0..1 : HT(d', t).used = Cardinality(PointersIn(d', t))
               ELSE /\ op'.ret = DICT_ERR
                    /\ LiveKeys(d') = LiveKeys(d)
                    /\ Entries(d') = Entries(d)
                    /\ dictSize(d') = dictSize(d)]_vars

\* dictDelete removed one of four entries while they were split over the two
\* tables
DeleteContractWitness ==
    /\ op = [name |-> "dictDelete", ret |-> DICT_OK]
    /\ SplitOverTables(d)
    /\ dictSize(d) = 3

\* C7: a call dictExpand(d, N) returns DICT_ERR and changes nothing exactly
\* when a rehash is in progress, or ht[0].used > N, or the size N is rounded
\* to equals ht[0].size.  In every other case it returns DICT_OK, whatever
\* the resize flag is, and moves no entry: an unallocated ht[0] becomes an
\* empty table of the rounded size and no rehash starts; otherwise ht[0] is
\* as it was, ht[1] is an empty table of the rounded size and rehashidx is 0.
ExpandContract ==
    [][\A n \in 0..MaxExpand :
           op'.name = "dictExpand" /\ DictExpand(n) =>
               IF \/ dictIsRehashing(d)
                  \/ HT(d, 0).used > n
                  \/ _dictNextPower(n) = HT(d, 0).size
               THEN /\ op'.ret = DICT_ERR
                    /\ d' = d
               ELSE /\ op'.ret = DICT_OK
                    /\ Entries(d') = Entries(d)
                    /\ IF HT(d, 0).size = 0
                       THEN /\ HT(d', 0).size = _dictNextPower(n)
                            /\ HT(d', 0).used = 0
                            /\ PointersIn(d', 0) = {}
                            /\ HT(d', 1) = HT(d, 1)
                            /\ d'.rehashidx = -1
                       ELSE /\ HT(d', 0) = HT(d, 0)
                            /\ HT(d', 1).size = _dictNextPower(n)
                            /\ HT(d', 1).used = 0
                            /\ PointersIn(d', 1) = {}
                            /\ d'.rehashidx = 0]_vars

\* dictExpand returned DICT_OK with the resize flag disabled and left the four
\* entries in ht[0], ht[1] being the new table of another size
ExpandContractWitness ==
    /\ op = [name |-> "dictExpand", ret |-> DICT_OK]
    /\ ~dict_can_resize
    /\ d.rehashidx = 0
    /\ HT(d, 0).used = 4
    /\ HT(d, 1).used = 0
    /\ HT(d, 1).size # HT(d, 0).size

\* C8: for every requested capacity N that has a power of two above it in an
\* unsigned long, N in 0..LONG_MAX+1, the size of the table a successful
\* dictExpand(d, N) allocates is the smallest power of two that is >= N and
\* >= 4.  The code rounds N = LONG_MAX and N = LONG_MAX + 1 to LONG_MAX.
ExpansionSizeIsPowerOfTwo ==
    [][\A n \in 0..(LONG_MAX + 1) :
           DictExpand(n) /\ op'.ret = DICT_OK =>
               IF HT(d, 0).size = 0
               THEN HT(d', 0).size = TargetSize(n)
               ELSE HT(d', 1).size = TargetSize(n)]_vars

\* C9, as the code has it: in every step that is a call of dictAdd, the
\* policy is applied to the dictionary s as the rehash step of the insertion
\* attempt leaves it.  If no rehash is in
\* progress in s: an unallocated ht[0] becomes a table of size 4 and no rehash
\* starts; otherwise an expansion to the smallest power of two >= 2 * used
\* starts if and only if used >= size and (the resize flag is enabled or the
\* integer quotient used / size is greater than 5).  If a rehash is still in
\* progress in s, the attempt starts no expansion.
ExpansionPolicy ==
    [][op'.name = "dictAdd" =>
               LET s == StepIfRehashing(d).d
                   used == HT(s, 0).used
                   size == HT(s, 0).size
               IN  IF dictIsRehashing(s)
                   THEN /\ dictIsRehashing(d')
                        /\ d'.rehashidx = s.rehashidx
                        /\ HT(d', 0).size = size
                        /\ HT(d', 1).size = HT(s, 1).size
                   ELSE IF size = 0
                   THEN /\ ~dictIsRehashing(d')
                        /\ HT(d', 0).size = DICT_HT_INITIAL_SIZE
                        /\ HT(d', 1).size = 0
                   ELSE IF /\ used >= size
                           /\ dict_can_resize \/ used \div size > 5
                   THEN /\ dictIsRehashing(d')
                        /\ d'.rehashidx = 0
                        /\ HT(d', 0).size = size
                        /\ HT(d', 1).size = TargetSize(2 * used)
                   ELSE /\ ~dictIsRehashing(d')
                        /\ HT(d', 0).size = size
                        /\ HT(d', 1).size = 0]_vars

\* with the resize flag disabled, an insertion attempt on a table of size 4
\* with 24 entries (24 / 4 > 5) started the expansion to 64
ExpansionPolicyWitness ==
    /\ op.name = "dictAdd"
    /\ ~dict_can_resize
    /\ d.rehashidx = 0
    /\ HT(d, 0).size = DICT_HT_INITIAL_SIZE
    /\ HT(d, 0).used = 24
    /\ HT(d, 1).size = 64

\* C9, as stated: in every step that is a call of dictAdd, the policy is
\* applied to the dictionary as the insertion attempt finds it, and an attempt that finds a rehash in progress never
\* starts an expansion: it does not end with a rehash in progress towards a
\* table other than the ht[1] it found.
ExpansionPolicyOnArrival ==
    [][op'.name = "dictAdd" =>
               LET used == HT(d, 0).used
                   size == HT(d, 0).size
               IN  IF dictIsRehashing(d)
                   THEN ~(dictIsRehashing(d') /\ HT(d', 0).size # size)
                   ELSE IF size = 0
                   THEN /\ ~dictIsRehashing(d')
                        /\ HT(d', 0).size = DICT_HT_INITIAL_SIZE
                        /\ HT(d', 1).size = 0
                   ELSE IF /\ used >= size
                           /\ dict_can_resize \/ used \div size > 5
                   THEN /\ dictIsRehashing(d')
                        /\ d'.rehashidx = 0
                        /\ HT(d', 0).size = size
                        /\ HT(d', 1).size = TargetSize(2 * used)
                   ELSE /\ ~dictIsRehashing(d')
                        /\ HT(d', 0).size = size
                        /\ HT(d', 1).size = 0]_vars

\* C10, as the code has it: after N >= 1 distinct keys were inserted with
\* dictAdd into a freshly created dictionary with default settings, the
\* capacity (the size of ht[1] while the rehash the insertions started is in
\* progress, of ht[0] otherwise) is the smallest power of two that is >= N
\* and >= 4, dictSize is N and dictFind finds every one of the N keys.
InsertCapacity ==
    /\ dictSize(d) = Cardinality(DOMAIN amap)
    /\ dictSize(d) >= 1 => Capacity(d) = TargetSize(dictSize(d))
    /\ \A k \in DOMAIN amap :
           /\ dictFind(d, k).entry # NULLENTRY
           /\ EntryAt(dictFind(d, k).d, dictFind(d, k).entry).key = k

\* the keys 1..InsertKeys are all inserted, the resize flag is enabled, no
\* iterator is open and the rehash to the larger table is in progress
InsertCapacityWitness ==
    /\ op = [name |-> "dictAdd", ret |-> DICT_OK]
    /\ DOMAIN amap = 1..InsertKeys
    /\ dict_can_resize
    /\ d.iterators = 0
    /\ SplitOverTables(d)
    /\ Capacity(d) > DICT_HT_INITIAL_SIZE

\* C10, as stated: after N >= 1 distinct keys were inserted, the capacity is
\* the smallest power of two >= N (1 for one key, 2 for two keys) and
\* dictFind finds every one of the N keys.
InsertCapacityExact ==
    /\ dictSize(d) >= 1 =>
           /\ Capacity(d) \in PowersOfTwo
           /\ Capacity(d) >= dictSize(d)
           /\ \A q \in PowersOfTwo : q >= dictSize(d) => Capacity(d) <= q
    /\ \A k \in DOMAIN amap : dictFind(d, k).entry # NULLENTRY

\* C11: from any state in which a rehash is in progress, a caller that only
\* calls dictRehash(d, n) with n >= 1 is out of the rehash after at most as
\* many calls as ht[0] had buckets when it started, and it does get there.
\* From then on ht[1] is the reset table, dictFind finds no key in ht[1] and
\* dictScan reads buckets of ht[0] only.
DrainBounded == drain.on /\ drain.calls >= drain.size => ~dictIsRehashing(d)

DrainedToFirstTable ==
    drain.on /\ ~dictIsRehashing(d) =>
        /\ HT(d, 1) = _dictReset
        /\ \A key \in DrainKeys : HT(d, 0).size > 0 => Lookup(d, key).t # 1
        /\ \A b \in scan.buckets : b[1] = 0

RehashTerminates ==
    /\ []DrainBounded
    /\ []DrainedToFirstTable
    /\ (drain.on ~> ~dictIsRehashing(d))

\* the rehash of a table of four full buckets ended with the fourth call,
\* and a scan ran afterwards
RehashTerminatesWitness ==
    /\ drain.on
    /\ drain.size = DICT_HT_INITIAL_SIZE
    /\ drain.calls = drain.size
    /\ ~dictIsRehashing(d)
    /\ scan.calls > 0

\* C14: a scan of a dictionary that holds a key, is not rehashing and is not
\* modified, started with cursor 0, returns 0 with its S-th call, S the size
\* of ht[0], and not before; each call reads one bucket of ht[0], no bucket is
\* read twice, and the S calls read all S buckets.
StillScanCovers ==
    op.name = "dictScan" /\ scan.calls > 0 =>
        /\ scan.on <=> scan.calls < HT(d, 0).size
        /\ scan.reads = scan.calls
        /\ Cardinality(scan.buckets) = scan.reads
        /\ scan.buckets \subseteq {<<0, b>> : b \in 0..(HT(d, 0).size - 1)}
        /\ ~scan.on => scan.seen = LiveKeys(d)

\* a scan of a table of 32 buckets has ended
StillScanCoversWitness ==
    /\ op.name = "dictScan"
    /\ ~scan.on
    /\ HT(d, 0).size = 8 * DICT_HT_INITIAL_SIZE
    /\ scan.calls = HT(d, 0).size
    /\ scan.seen # {}

\* C13: when insertions of new keys are the only calls made between the calls
\* of dictScan, a scan from cursor 0 to the call that returns 0 has given to
\* fn every key that was in the dictionary at its first call.
GrowScanComplete ==
    ~scan.on /\ scan.calls > 0 => scan.stay \subseteq scan.seen

\* a scan that began in a table of 4 buckets has ended in a table of 16,
\* with keys inserted on the way
GrowScanCompleteWitness ==
    /\ ~scan.on
    /\ scan.calls > 0
    /\ Cardinality(scan.stay) \in 1..DICT_HT_INITIAL_SIZE
    /\ Capacity(d) >= 4 * DICT_HT_INITIAL_SIZE

\* C12: whatever adds, deletes, rehash steps and resizes are made between the
\* calls of dictScan, a scan from cursor 0 to the call that returns 0 has
\* given to fn every key that was in the dictionary from its first call to
\* its last.
ChurnScanComplete ==
    ~scan.on /\ scan.calls > 0 => scan.stay \subseteq scan.seen

\* an iterator between its first dictNext and its release
Advanced(it) == it.open /\ ~(it.index = -1 /\ it.table = 0)
SafeLive == \E i \in 1..NIters : Advanced(iters[i]) /\ iters[i].safe
UnsafeLive == \E i \in 1..NIters : Advanced(iters[i]) /\ ~iters[i].safe

\* the table and the bucket that hold the entry of key
Place(dd, key) ==
    LET e == CHOOSE e \in Pointers(dd) : EntryAt(dd, e).key = key
    IN  <<e.t, e.b>>

\* C15: between the first dictNext of a safe iterator and its release, a call
\* of dictAdd, dictReplace, dictFind, dictDelete or dictGetRandomKey leaves
\* rehashidx as it was and every entry it does not delete in its table and
\* bucket.
SafeIterationPins ==
    [][SafeLive /\ op'.name \in {"dictAdd", "dictReplace", "dictFind",
                                 "dictDelete", "dictGetRandomKey"}
          => /\ d'.rehashidx = d.rehashidx
             /\ \A key \in LiveKeys(d) \cap LiveKeys(d') :
                    Place(d', key) = Place(d, key)]_vars

\* C16: between the first dictNext of a safe iterator and its release, a call
\* of dictRehash or dictRehashMilliseconds leaves the dictionary as it was.
GatedRehashIsNoOp ==
    [][SafeLive /\ op'.name \in {"dictRehash", "dictRehashMilliseconds"}
          => d' = d]_vars

\* C17: between the first dictNext of a safe iterator and its release no call
\* allocates a table: the sizes of ht[0] and ht[1] after a call are sizes
\* they had before it, or 0.
NoResizeWhileSafe ==
    [][SafeLive
          => {HT(d', 0).size, HT(d', 1).size}
                 \subseteq {HT(d, 0).size, HT(d, 1).size, 0}]_vars

\* C18: whatever keys the caller adds, finds and deletes between the calls of
\* dictNext of a safe iterator, dictNext does not read an entry that was
\* freed.
NextNeverDangles == op.name = "dictNext" => fault = "none"

\* C19: a dictReleaseIterator of an iterator that is not safe, made when the
\* fingerprint of the dictionary is not the one the first dictNext recorded,
\* ends the process.
ReleaseDetectsMismatch ==
    [][\A i \in 1..NIters :
           /\ op'.name = "dictReleaseIterator"
           /\ Advanced(iters[i])
           /\ ~iters[i].safe
           /\ ~iters'[i].open
           /\ iters[i].fingerprint # dictFingerprint(d)
           => fault' # "none"]_vars

\* C20: while the caller calls only dictNext, dictFind and dictFetchValue
\* between the first dictNext of an iterator that is not safe and its
\* release, the fingerprint of the dictionary is the one recorded.
LookupKeepsFingerprint ==
    \A i \in 1..NIters :
        Advanced(iters[i]) /\ ~iters[i].safe
            => iters[i].fingerprint = dictFingerprint(d)

\* C21: dictGetSomeKeys(d, des, count) returns r with r <= count and
\* r <= dictSize(d), writes exactly the first r slots of des, inspects at most
\* 10 * min(count, dictSize(d)) positions, and every pointer it returned is
\* an entry linked in the dictionary.
SomeKeysContract ==
    op.name = "dictGetSomeKeys" =>
        /\ fault = "none"
        /\ op.ret <= op.count /\ op.ret <= op.size
        /\ DOMAIN op.des = 1..op.count
        /\ \A n \in 1..op.count : (op.des[n] # NULLENTRY) <=> (n <= op.ret)
        /\ op.steps <= 10 * (IF op.size < op.count THEN op.size ELSE op.count)
        /\ \A n \in 1..op.ret : op.des[n] \in Pointers(d)

\* a sampling of a table in the middle of a rehash that jumped after a run of
\* empty buckets and returned entries
SomeKeysContractWitness ==
    /\ op.name = "dictGetSomeKeys"
    /\ dictIsRehashing(d)
    /\ op.jumps >= 1
    /\ op.ret >= 1

\* C22: within one call of dictGetSomeKeys no entry is returned twice,
\* whatever the random start position and the random jumps are.
SomeKeysDistinct ==
    op.name = "dictGetSomeKeys" =>
        \A m, n \in 1..op.ret : m # n => op.des[m] # op.des[n]

\* C23: with fewer live entries than count the call returns every entry
\* exactly once; else it returns between 1 and count entries; zero entries
\* are returned only when count is 0.
SomeKeysBound ==
    op.name = "dictGetSomeKeys" =>
        /\ op.size < op.count =>
               /\ op.ret = op.size
               /\ \A e \in Pointers(d) :
                      Cardinality({n \in 1..op.ret : op.des[n] = e}) = 1
        /\ op.size >= op.count => op.ret <= op.count /\ (op.count > 0 => op.ret >= 1)
        /\ op.ret = 0 => op.count = 0

\* C22 as amended: a call of dictGetSomeKeys that takes no random jump, on a
\* dictionary that is not shrinking, returns no entry twice.
SomeKeysDistinctWithoutJump ==
    op.name = "dictGetSomeKeys" /\ op.jumps = 0 /\ ~Shrinking(d) =>
        \A m, n \in 1..op.ret : m # n => op.des[m] # op.des[n]

\* a sampling without a jump, of a table that grows, that went through
\* several positions and returned several entries
SomeKeysDistinctWithoutJumpWitness ==
    /\ op.name = "dictGetSomeKeys" /\ op.jumps = 0
    /\ dictIsRehashing(d) /\ ~Shrinking(d)
    /\ op.ret >= 2 /\ op.steps >= 3

\* the smaller of count and dictSize(d) of the last sampling
SomeKeysWanted == IF op.size < op.count THEN op.size ELSE op.count

\* C23 as amended: dictGetSomeKeys returns at most min(count, M) entries,
\* and exactly that many, each entry once (so every key once when M < count),
\* when it takes no random jump, the dictionary is not shrinking and the
\* larger table has at most 10 * min(count, M) buckets.
SomeKeysBoundInBudget ==
    op.name = "dictGetSomeKeys" =>
        /\ op.ret <= SomeKeysWanted
        /\ op.jumps = 0 /\ ~Shrinking(d)
             /\ MaxSizeMask(d) + 1 <= 10 * SomeKeysWanted =>
               /\ op.ret = SomeKeysWanted
               /\ \A m, n \in 1..op.ret : m # n => op.des[m] # op.des[n]
               /\ op.size < op.count =>
                      \A e \in Pointers(d) : \E n \in 1..op.ret : op.des[n] = e

\* a sampling that was asked for more entries than there are and returned
\* every entry, of a table in the middle of a rehash
SomeKeysBoundInBudgetWitness ==
    /\ op.name = "dictGetSomeKeys" /\ op.jumps = 0
    /\ dictIsRehashing(d) /\ ~Shrinking(d)
    /\ op.size < op.count /\ op.ret = op.size /\ op.ret >= 2

\* C24: dictGetRandomKey returns NULL exactly when dictSize(d) is 0;
\* otherwise every position h it draws is a bucket of an allocated table (in
\* rehashidx .. ht[0].size + ht[1].size - 1 while rehashing, in
\* 0 .. ht[0].size - 1 otherwise) and the entry it returns is linked in the
\* dictionary.
RandomKeyContract ==
    op.name = "dictGetRandomKey" =>
        /\ fault = "none"
        /\ (op.entry = NULLENTRY) <=> (dictSize(d) = 0)
        /\ \A h \in op.drawn :
               IF dictIsRehashing(d)
               THEN d.rehashidx <= h /\ h < HT(d, 0).size + HT(d, 1).size
               ELSE 0 <= h /\ h < HT(d, 0).size
        /\ op.entry # NULLENTRY => op.entry \in Pointers(d)

\* a call in the middle of a rehash that drew an empty bucket first, drew a
\* bucket of ht[1], and returned an entry that is not the head of its chain
RandomKeyContractWitness ==
    /\ op.name = "dictGetRandomKey"
    /\ dictIsRehashing(d)
    /\ Cardinality(op.drawn) >= 2
    /\ \E h \in op.drawn : h >= HT(d, 0).size
    /\ op.entry # NULLENTRY /\ op.entry.p >= 2

\* C25: from any state, rehashing or not, with or without open iterators,
\* dictEmpty leaves no entry (none linked, none left allocated), both tables
\* unallocated with size 0 and used 0, rehashidx -1 and iterators 0; and a
\* dictAdd that follows does what it does on a new dictionary: it allocates a
\* table of DICT_HT_INITIAL_SIZE buckets, starts no rehash and links its key
\* as the only entry.
EmptyThenAdd ==
    [][/\ op'.name = "dictEmpty" =>
              /\ d' = [ht |-> <<_dictReset, _dictReset>>, rehashidx |-> -1,
                       iterators |-> 0]
              /\ op'.leaked = {} /\ op'.ret = Cardinality(Pointers(d))
       /\ op.name = "dictEmpty" /\ op'.name = "dictAdd" =>
              /\ op'.ret = DICT_OK
              /\ HT(d', 0).size = DICT_HT_INITIAL_SIZE /\ HT(d', 0).used = 1
              /\ HT(d', 1) = _dictReset
              /\ d'.rehashidx = -1 /\ d'.iterators = 0
              /\ Cardinality(Pointers(d')) = 1]_vars

\* dictEmpty in the middle of a rehash, with a safe iterator counted in,
\* freed several entries
EmptyThenAddWitness ==
    /\ op.name = "dictEmpty"
    /\ op.rehashing /\ op.iterators >= 1
    /\ op.ret >= 2

\* C26: dictResize returns DICT_ERR and changes nothing when the resize flag
\* is disabled or a rehash is in progress.  Otherwise it moves no entry and
\* the table new entries go to has, afterwards, the size of the smallest
\* power of two >= max(ht[0].used, 4) (it returns DICT_OK exactly when that
\* took a new table).  A rehash keeps the size of ht[1] until it completes,
\* it completes by making ht[1] the new ht[0] (an insertion whose rehash step
\* completes it may go on to start the next expansion), and the keys linked
\* are at every moment the keys the callers have put and not deleted.
ResizeContract ==
    [][/\ op'.name = "dictResize" =>
              IF ~dict_can_resize \/ dictIsRehashing(d)
              THEN op'.ret = DICT_ERR /\ d' = d
              ELSE /\ Capacity(d') = TargetSize(HT(d, 0).used)
                   /\ Entries(d') = Entries(d)
                   /\ (op'.ret = DICT_OK) <=> (d' # d)
                   /\ op'.ret \in {DICT_OK, DICT_ERR}
       /\ dictIsRehashing(d) /\ dictIsRehashing(d')
             /\ HT(d', 1).size # HT(d, 1).size =>
              /\ op'.name \in {"dictAdd", "dictReplace"}
              /\ ~dictIsRehashing(dictRehash(d, 1).d)
              /\ HT(dictRehash(d, 1).d, 0).size = HT(d, 1).size
       /\ dictIsRehashing(d) /\ ~dictIsRehashing(d') =>
              HT(d', 0).size = HT(d, 1).size /\ HT(d', 1) = _dictReset
       /\ LiveKeys(d') = DOMAIN amap']_vars

\* dictResize started the rehash of a table of 8 with three entries into a
\* table of 4, and the rehash is in progress
ResizeContractWitness ==
    /\ op.name = "dictResize" /\ op.ret = DICT_OK
    /\ dictIsRehashing(d)
    /\ HT(d, 0).used = 3 /\ HT(d, 0).size = 2 * DICT_HT_INITIAL_SIZE
    /\ HT(d, 1).size = DICT_HT_INITIAL_SIZE

\* C27: sdsMakeRoomFor(s, addlen) leaves the string untouched when
\* free >= addlen; otherwise it keeps len and the first len bytes and sets
\* free to 2*(len+addlen) - len when len+addlen is below 1 MiB and to
\* (len+addlen+1 MiB) - len otherwise, so that free >= addlen holds afterwards
RoomFree(s, addlen) ==
    IF Less64(Add64(s.len, addlen), SizeT(SDS_MAX_PREALLOC))
    THEN Sub64(Shl64(Add64(s.len, addlen), 1), s.len)
    ELSE Sub64(Add64(Add64(s.len, addlen), SizeT(SDS_MAX_PREALLOC)), s.len)
RoomContract ==
    [][op'.name = "sdsMakeRoomFor" =>
        IF ~Less64(sh.free, op'.addlen) THEN sh' = sh
        ELSE /\ sh'.len = sh.len
             /\ sdsString(sh') = sdsString(sh)
             /\ sh'.free = RoomFree(sh, op'.addlen)
             /\ ~Less64(sh'.free, op'.addlen)]_vars

\* C28: sdsclear, sdsrange, sdsIncrLen and sdsupdatelen keep len + free and
\* leave a zero byte at buf[len]; sdsclear sets len to 0, sdsIncrLen(s, k)
\* changes len by exactly k, and sdsrange(s, start, end) keeps exactly the
\* bytes start..end, a negative index counted from the end, the indexes
\* clamped to the string, and nothing when start > end
InPlace == {"sdsclear", "sdsrange", "sdsIncrLen", "sdsupdatelen"}
FromEnd(n, i) == IF i >= 0 THEN i ELSE IF n + i < 0 THEN 0 ELSE n + i
Clamped(n, i) == IF i > n - 1 THEN n - 1 ELSE i
RangeOf(str, start, end) ==
    IF FromEnd(Len(str), start) > Clamped(Len(str), FromEnd(Len(str), end)) THEN <<>>
    ELSE SubSeq(str, FromEnd(Len(str), start) + 1, Clamped(Len(str), FromEnd(Len(str), end)) + 1)
InPlaceContract ==
    [][op'.name \in InPlace /\ fault' = "none" =>
        /\ Add64(sh'.len, sh'.free) = Add64(sh.len, sh.free)
        /\ sh'.buf[Natural(sh'.len) + 1] = 0
        /\ op'.name = "sdsclear" => sh'.len = SizeT(0)
        /\ op'.name = "sdsIncrLen" =>
              sh'.len = (IF op'.incr >= 0 THEN Add64(sh.len, SizeT(op'.incr))
                         ELSE Sub64(sh.len, SizeT(0 - op'.incr)))
        /\ op'.name = "sdsrange" =>
              sdsString(sh') = RangeOf(sdsString(sh), op'.start, op'.end)]_vars

\* C29 as stated: in every rehashing state the buckets of ht[0] below
\* rehashidx are empty and rehashidx <= ht[0].size; an entry added while
\* rehashing is linked in ht[1]; and from a rehashing state to the next
\* rehashing state ht[0].used does not increase and rehashidx does not decrease
KeysIn(dd, t) == {EntryAt(dd, e).key : e \in PointersIn(dd, t)}
BehindEmpty(dd) == \A i \in 0..(dd.rehashidx - 1) : i < HT(dd, 0).size => Chain(dd, 0, i) = <<>>
RehashMonotoneAlways ==
    [][/\ dictIsRehashing(d') => BehindEmpty(d') /\ d'.rehashidx <= HT(d', 0).size
       /\ dictIsRehashing(d') => LiveKeys(d') \ LiveKeys(d) \subseteq KeysIn(d', 1)
       /\ dictIsRehashing(d) /\ dictIsRehashing(d') =>
              /\ HT(d', 0).used <= HT(d, 0).used
              /\ d'.rehashidx >= d.rehashidx]_vars

\* C29, amended: in every rehashing state the buckets of ht[0] below rehashidx
\* are empty and rehashidx <= ht[0].size; an entry added while rehashing is
\* linked in ht[1] and none is linked in ht[0]; and as long as the same rehash
\* is in progress ht[0].used does not increase and rehashidx does not decrease
\* the step ended the rehash that was in progress: the rehash step of an
\* insertion moved the last bucket (the insertion may then start the next one)
EndedRehash == op'.name \in {"dictAdd", "dictReplace"} /\ ~dictIsRehashing(StepIfRehashing(d).d)
RehashMonotone ==
    [][/\ dictIsRehashing(d') => BehindEmpty(d') /\ d'.rehashidx <= HT(d', 0).size
       /\ dictIsRehashing(d') =>
              /\ LiveKeys(d') \ LiveKeys(d) \subseteq KeysIn(d', 1)
              /\ dictIsRehashing(d) /\ ~EndedRehash => KeysIn(d', 0) \subseteq KeysIn(d, 0)
       /\ dictIsRehashing(d) /\ dictIsRehashing(d') /\ ~EndedRehash =>
              /\ HT(d', 0).used <= HT(d, 0).used
              /\ d'.rehashidx >= d.rehashidx]_vars

\* an entry was added in the middle of a rehash: buckets were moved already,
\* entries are left in ht[0], and ht[1] holds more of them than it was given
\* by the rehash alone
RehashMonotoneWitness ==
    /\ op.name = "dictAdd" /\ op.ret = DICT_OK
    /\ dictIsRehashing(d)
    /\ d.rehashidx >= 2
    /\ HT(d, 0).used >= 1
    /\ HT(d, 1).used >= 2

\* C30: in every state the dictionary is rehashing (rehashidx >= 0) if and
\* only if ht[1] is allocated; when it is not rehashing, ht[1] has no table,
\* size 0 and used 0, and rehashidx is -1
RehashingIffSecond ==
    /\ d.rehashidx >= -1
    /\ d.rehashidx >= 0 <=> HT(d, 1).table # <<>>
    /\ d.rehashidx < 0 =>
          /\ HT(d, 1).table = <<>> /\ HT(d, 1).size = 0 /\ HT(d, 1).used = 0
          /\ d.rehashidx = -1

\* a rehash has completed: the table of 8 that was ht[1] is ht[0] now, with
\* more entries than a table of 4 is given without expanding, and ht[1] is
\* reset
RehashingIffSecondWitness ==
    /\ op.name = "dictRehash" /\ op.ret = 0
    /\ ~dictIsRehashing(d)
    /\ HT(d, 0).size = 2 * DICT_HT_INITIAL_SIZE
    /\ HT(d, 0).used >= 3
    /\ HT(d, 1) = _dictReset

\* C31: in every state each allocated table has a size that is a power of two
\* >= 4 with sizemask = size - 1, and every entry linked in table t sits in
\* bucket hash(key) & ht[t].sizemask of that table
TableShaped(dd, t) ==
    HT(dd, t).table # <<>> =>
        /\ HT(dd, t).size \in PowersOfTwo
        /\ HT(dd, t).size >= DICT_HT_INITIAL_SIZE
        /\ HT(dd, t).sizemask = HT(dd, t).size - 1
        /\ \A e \in PointersIn(dd, t) :
               e.b = BitAnd(dictHashKey(EntryAt(dd, e).key), HT(dd, t).sizemask)
TablesShaped == TableShaped(d, 0) /\ TableShaped(d, 1)

\* C32: in every state d->iterators is the number of safe iterators that were
\* advanced at least once and are not released yet, and it is never negative,
\* also after a dictEmpty that was called while a safe iterator was open
IteratorsCounted ==
    /\ d.iterators = Cardinality({i \in 1..NIters : Advanced(iters[i]) /\ iters[i].safe})
    /\ d.iterators >= 0

\* C33: an iterator, safe or not, advanced with dictNext on a dictionary that
\* is not modified meanwhile returns every entry exactly once, the buckets of
\* ht[0] in increasing order and then those of ht[1] only if a rehash is in
\* progress, then returns NULL, and keeps returning NULL
RECURSIVE ChainsFrom(_, _, _)
ChainsFrom(dd, t, i) ==
    IF i >= HT(dd, t).size THEN <<>> ELSE Chain(dd, t, i) \o ChainsFrom(dd, t, i + 1)
\* the keys in the order of the walk
WalkOrder(dd) ==
    LET es == ChainsFrom(dd, 0, 0) \o (IF dictIsRehashing(dd) THEN ChainsFrom(dd, 1, 0) ELSE <<>>)
    IN  [i \in 1..Len(es) |-> es[i].key]
\* how many keys of order the caller was given when the last call returned ret
WalkDone(order, name, ret) ==
    IF name # "dictNext" THEN 0
    ELSE IF ret = 0 THEN Len(order)
    ELSE CHOOSE i \in 1..Len(order) : order[i] = ret
WalkInOrder ==
    [][op'.name = "dictNext" /\ op.name \in {"dictGetIterator", "dictGetSafeIterator", "dictNext"} =>
        LET order == WalkOrder(d)
            done == WalkDone(order, op.name, op.ret)
        IN  /\ fault' = "none"
            /\ d'.ht = d.ht /\ d'.rehashidx = d.rehashidx
            /\ Len(order) = Cardinality(Pointers(d))
            /\ {order[i] : i \in 1..Len(order)} = LiveKeys(d)
            /\ op'.ret = IF done < Len(order) THEN order[done + 1] ELSE 0]_vars

\* the iterator has walked both tables of a dictionary that is rehashing,
\* with entries in both, and was called again after the end
WalkInOrderWitness ==
    /\ op.name = "dictNext" /\ op.ret = 0
    /\ dictIsRehashing(d)
    /\ HT(d, 0).used >= 1 /\ HT(d, 1).used >= 2
    /\ iters[1].table = 1
    /\ iters[1].index > HT(d, 1).size

\* C34 as stated: one call dictRehash(d, n) migrates the complete chains of at
\* most n non-empty buckets of ht[0], gives up after passing 10*n empty
\* buckets, and keeps the (key, value) pairs and ht[0].used + ht[1].used, with
\* ht[0].used decreased and ht[1].used increased by the number of entries moved
FirstBuckets(dd) == 0..(HT(dd, 0).size - 1)
\* the buckets of ht[0] the step from dd to ee emptied
MovedBuckets(dd, ee) ==
    {i \in FirstBuckets(dd) :
        Chain(dd, 0, i) # <<>> /\ (dictIsRehashing(ee) => Chain(ee, 0, i) = <<>>)}
ChainLengths(dd, bs) ==
    Cardinality({e \in PointersIn(dd, 0) : e.b \in bs})
\* what holds of a call in every case
RehashMigrates(dd, ee, n, ret) ==
    /\ Cardinality(MovedBuckets(dd, ee)) <= n
    /\ dictIsRehashing(ee) =>
          /\ \A i \in FirstBuckets(dd) : Chain(ee, 0, i) \in {Chain(dd, 0, i), <<>>}
          /\ ee.rehashidx - dd.rehashidx - Cardinality(MovedBuckets(dd, ee)) <= 10 * n
          /\ Cardinality(MovedBuckets(dd, ee)) < n =>
                ee.rehashidx - dd.rehashidx - Cardinality(MovedBuckets(dd, ee)) = 10 * n
    /\ Entries(ee) = Entries(dd)
    /\ dictSize(ee) = dictSize(dd)
\* the counters of the two tables follow the entries moved
RehashCounts(dd, ee) ==
    /\ HT(ee, 0).used = HT(dd, 0).used - ChainLengths(dd, MovedBuckets(dd, ee))
    /\ HT(ee, 1).used = HT(dd, 1).used + ChainLengths(dd, MovedBuckets(dd, ee))
RehashFrame ==
    [][\A n \in 0..MaxRehashN :
           DictRehash(n) /\ dictIsRehashing(d) =>
               RehashMigrates(d, d', n, op'.ret) /\ RehashCounts(d, d')]_vars

\* C34, amended: the counters are as stated after a call that leaves the
\* rehash in progress; the call that completes it leaves all the entries in
\* ht[0], the former ht[1], and none in ht[1]
RehashFrameUntilEnd ==
    [][\A n \in 0..MaxRehashN :
           DictRehash(n) /\ dictIsRehashing(d) =>
               /\ RehashMigrates(d, d', n, op'.ret)
               /\ IF dictIsRehashing(d') THEN RehashCounts(d, d')
                  ELSE /\ HT(d', 0).used = HT(d, 0).used + HT(d, 1).used
                       /\ HT(d', 1).used = 0]_vars

\* a call gave up on the empty buckets of a table of 16 without moving any
\* entry, and the next call moved a chain
RehashFrameUntilEndWitness ==
    /\ op.name = "dictRehash" /\ op.ret = 1
    /\ dictIsRehashing(d)
    /\ HT(d, 0).size = 4 * DICT_HT_INITIAL_SIZE
    /\ d.rehashidx > 10
    /\ HT(d, 1).used >= 1 /\ HT(d, 0).used >= 1

\* C35: dictRehash returns 0 if and only if the dictionary is not rehashing
\* when the call returns, and 1 otherwise; the rehash completes exactly in a
\* call that has moved the last entry of ht[0], and then ht[0] is the former
\* ht[1] (its size, and its chains behind the entries the call moved in),
\* ht[1] is reset and rehashidx is -1
IsSuffix(c, cc) == Len(c) <= Len(cc) /\ SubSeq(cc, Len(cc) - Len(c) + 1, Len(cc)) = c
RehashCompletion ==
    [][\A n \in 0..MaxRehashN :
           DictRehash(n) =>
               /\ op'.ret \in {0, 1}
               /\ op'.ret = 0 <=> ~dictIsRehashing(d')
               /\ ~dictIsRehashing(d) => d' = d
               /\ dictIsRehashing(d) /\ dictIsRehashing(d') =>
                      /\ HT(d', 0).used # 0
                      /\ HT(d', 0).size = HT(d, 0).size
                      /\ HT(d', 1).size = HT(d, 1).size
               /\ dictIsRehashing(d) /\ ~dictIsRehashing(d') =>
                      /\ HT(d', 0).size = HT(d, 1).size
                      /\ HT(d', 0).sizemask = HT(d, 1).sizemask
                      /\ HT(d', 0).used = dictSize(d)
                      /\ \A b \in 0..(HT(d, 1).size - 1) :
                             IsSuffix(Chain(d, 1, b), Chain(d', 0, b))
                      /\ Entries(d') = Entries(d)
                      /\ HT(d', 1) = _dictReset
                      /\ d'.rehashidx = -1]_vars

\* dictRehash has returned 0 on a table of 4 that holds three entries, two of
\* them in one chain, and no rehash is in progress
RehashCompletionWitness ==
    /\ op.name = "dictRehash" /\ op.ret = 0
    /\ ~dictIsRehashing(d)
    /\ HT(d, 0).size = DICT_HT_INITIAL_SIZE
    /\ HT(d, 0).used = 3
    /\ HT(d, 1) = _dictReset

\* C36 as stated: a call of dictScan, dictGetRandomKey or dictGetSomeKeys
\* leaves both tables, both used counters, every chain and rehashidx
\* unchanged, whether or not a rehash is in progress
Reads == {"dictScan", "dictGetRandomKey", "dictGetSomeKeys"}
ReadsChangeNothing ==
    [][op'.name \in Reads => d'.ht = d.ht /\ d'.rehashidx = d.rehashidx]_vars

\* C36, amended: dictScan changes nothing.  dictGetRandomKey and
\* dictGetSomeKeys change nothing when no rehash is in progress or a safe
\* iterator is counted in d->iterators; otherwise they run rehash steps first,
\* which empty buckets of ht[0] into ht[1] and advance rehashidx or end the
\* rehash.  In every case the (key, value) pairs, the number of entries and
\* d->iterators are as before.
ReadsKeepContents ==
    [][op'.name \in Reads =>
        /\ Entries(d') = Entries(d)
        /\ dictSize(d') = dictSize(d)
        /\ d'.iterators = d.iterators
        /\ op'.name = "dictScan" \/ ~dictIsRehashing(d) \/ d.iterators # 0 => d' = d
        /\ d' # d =>
              /\ \A i \in FirstBuckets(d) :
                     dictIsRehashing(d') => Chain(d', 0, i) \in {Chain(d, 0, i), <<>>}
              /\ dictIsRehashing(d') => d'.rehashidx > d.rehashidx /\ HT(d', 1).size = HT(d, 1).size
              /\ ~dictIsRehashing(d') => HT(d', 0).size = HT(d, 1).size /\ HT(d', 1) = _dictReset]_vars

\* a sampling in the middle of a rehash has moved entries and left the rehash
\* in progress
ReadsKeepContentsWitness ==
    /\ op.name = "dictGetSomeKeys"
    /\ op.ret >= 1
    /\ dictIsRehashing(d)
    /\ d.rehashidx >= 2
    /\ HT(d, 1).used >= 1 /\ HT(d, 0).used >= 1

\* C37: with no safe iterator open, a dictAdd, dictFind or dictDelete issued
\* during a rehash runs one step of it first: the call ends the rehash (a
\* dictAdd may begin the next one in the same call), or leaves rehashidx
\* larger and the sizes of both tables as they were.  A caller that issues
\* only such calls, on any keys and in any mix, is out of the rehash after at
\* most as many calls as ht[0] had buckets when the rehash was first seen.
StepTaken ==
    drain.on /\ dictIsRehashing(d) /\ op' # op =>
          \/ ~dictIsRehashing(d') /\ HT(d', 0).size = HT(d, 1).size
          \/ /\ dictIsRehashing(d')
             /\ HT(d', 0).size = HT(d, 1).size
             /\ d'.rehashidx = 0
             /\ op'.name = "dictAdd"
          \/ /\ dictIsRehashing(d')
             /\ d'.rehashidx > d.rehashidx
             /\ HT(d', 0).size = HT(d, 0).size
             /\ HT(d', 1).size = HT(d, 1).size

StepsBounded == drain.on /\ dictIsRehashing(d) => drain.calls < drain.size

ExpansionNeverFails ==
    [][/\ _dictExpandIfNeeded(d).ret = DICT_OK
       /\ _dictExpandIfNeeded(d').ret = DICT_OK
       /\ \A key \in InsertionKeys :
            LET val == FillVal(key)
            IN
              /\ DictAdd(key, val) =>
                     /\ _dictExpandIfNeeded(StepIfRehashing(d).d).ret = DICT_OK
                     /\ op'.ret = DICT_ERR <=> key \in LiveKeys(d)
              /\ DictReplace(key, val) =>
                     /\ fault' = "none"
                     /\ op'.ret = 0 <=> key \in LiveKeys(d)
                     /\ op'.ret = 0 => dictFind(dictAdd(d, key, val).d, key).entry # NULLENTRY]_vars

\* a dictAdd of a key that is in the dictionary has begun the expansion of a
\* full table and has then failed on the key
ExpansionNeverFailsWitness ==
    /\ op.name = "dictAdd"
    /\ op.ret = DICT_ERR
    /\ dictIsRehashing(d)
    /\ d.rehashidx = 0
    /\ HT(d, 0).used = HT(d, 0).size
    /\ HT(d, 1).size = 2 * HT(d, 0).size

\* C39: dictRehash never reads ht[0].table at an index >= ht[0].size while it
\* skips empty buckets: whenever a rehash is in progress and ht[0].used is not
\* 0, some bucket of ht[0] at an index >= rehashidx is not empty, also after
\* deletions and after a step that stopped on the limit of empty visits.
RehashStaysInTable ==
    /\ fault # "oob"
    /\ dictIsRehashing(d) /\ HT(d, 0).used # 0 =>
           \E i \in d.rehashidx..(HT(d, 0).size - 1) : Chain(d, 0, i) # <<>>

\* a dictDelete whose rehash step stopped after ten empty buckets of a table
\* of 16 has deleted its key from ht[0], and ht[0] still holds an entry
RehashStaysInTableWitness ==
    /\ op.name = "dictDelete"
    /\ op.ret = DICT_OK
    /\ dictIsRehashing(d)
    /\ d.rehashidx = 10
    /\ HT(d, 0).used = 1
    /\ HT(d, 1).used = 0

\* C40: with the resize flag on, no safe iterator and no explicit dictExpand
\* or dictResize, every state that dictAdd, dictReplace, dictFind and
\* dictDelete reach and in which no rehash is in progress has
\* ht[0].used <= ht[0].size.
LoadAtMostOne == ~dictIsRehashing(d) => HT(d, 0).used <= HT(d, 0).size

\* a rehash to 8 buckets has ended with 8 entries in the table
LoadAtMostOneWitness ==
    /\ ~dictIsRehashing(d)
    /\ op.name \in {"dictFind", "dictDelete"}
    /\ HT(d, 0).size = 2 * DICT_HT_INITIAL_SIZE
    /\ HT(d, 0).used = HT(d, 0).size

====
